---- MODULE Spec2Model ----
(***************************************************************************)
(* Model of the apexo-database sync worker: the D1 row store and change    *)
(* log (src/src/d1.ts), the KV read-through cache with its registry        *)
(* (src/src/cache.ts) and the request handlers (src/src/index.ts).         *)
(*                                                                         *)
(* Conventions                                                             *)
(*  - a SQL table is a sequence of rows in rowid order; the row table has  *)
(*    the schema of the tests, id TEXT PRIMARY KEY, account, data;         *)
(*  - a KV value is Json(v) (the text JSON.stringify(v)), Blank (the empty *)
(*    string) or, for a key that was never put, Null;                      *)
(*  - a URL is the text http://db.website.com/<table>/<version>/<page>.    *)
(***************************************************************************)
EXTENDS Integers, Sequences, FiniteSets, TLC

\* ------------------------------------------------------------------ bounds
MaxClock == 3      \* Date.now() ranges over 1..MaxClock
MaxLog == 2        \* change-log entries kept per table
MaxRegistry == 2   \* registry length up to which a call may still fail

\* --------------------------------------------------------------- constants
\* src/src/variables.ts, scaled (1000 and 99 there): a page holds 2 rows and
\* a batch 1 id, so that a page is still fetched in several batches
MAX_FETCH_ROWS == 2
MAX_VARIABLES == 1
VALID_TABLES ==
  {"staff", "patients", "settings", "ortho", "treatments", "labwork",
   "prescriptions", "appointments"}

\* ------------------------------------------------------------ input sets
Accounts == {"acc1", "acc2"}
Tables == {"staff", "patients"}
IdUniverse == {"", "1", "2", "a", "b", "a,2"}
Ids == {"1", "a"}
VersionArgs == {"0", "1", "2"}
PageArgs == {"0", "1", "Infinity"}
\* payloads are opaque; each tenant writes payloads of its own
Payloads == {"x", "y"}
DataOf(account, DS) == {<<account, d>> : d \in DS}

\* ------------------------------------------------------- sequence helpers
RECURSIVE SeqToSet(_)
SeqToSet(s) == IF s = <<>> THEN {} ELSE {Head(s)} \cup SeqToSet(Tail(s))

RECURSIVE SelectSeqBy(_, _)
\* the subsequence of s whose elements are in the set keep
SelectSeqBy(s, keep) ==
  IF s = <<>> THEN <<>>
  ELSE IF Head(s) \in keep THEN <<Head(s)>> \o SelectSeqBy(Tail(s), keep)
       ELSE SelectSeqBy(Tail(s), keep)

RECURSIVE Dedupe(_)
\* [...new Set(ids)]: first occurrences, in order
Dedupe(s) ==
  IF s = <<>> THEN <<>>
  ELSE LET front == Dedupe(SubSeq(s, 1, Len(s) - 1))
           x == s[Len(s)]
       IN IF x \in SeqToSet(front) THEN front ELSE Append(front, x)

\* Array.prototype.slice(start, end) with 0-based bounds
Slice(s, start, end) ==
  LET e == IF end > Len(s) THEN Len(s) ELSE end
  IN IF start >= e THEN <<>> ELSE SubSeq(s, start + 1, e)

Max2(a, b) == IF a >= b THEN a ELSE b
Min2(a, b) == IF a <= b THEN a ELSE b

\* ------------------------------------------------------------ id strings
\* the characters of an id string
Chars(id) ==
  CASE id = "" -> <<>>
    [] id = "1" -> <<"1">>
    [] id = "2" -> <<"2">>
    [] id = "a" -> <<"a">>
    [] id = "b" -> <<"b">>
    [] id = "a,2" -> <<"a", ",", "2">>

Str(cs) == CHOOSE id \in IdUniverse : Chars(id) = cs

\* BINARY collation of TEXT ids
IdRank(id) ==
  CASE id = "" -> 0
    [] id = "1" -> 1
    [] id = "2" -> 2
    [] id = "a" -> 3
    [] id = "a,2" -> 4
    [] id = "b" -> 5

\* canonical array-index property names are enumerated first by Object.keys
IsIndex(id) == id \in {"1", "2"}
IndexVal(id) == IF id = "1" THEN 1 ELSE 2

RECURSIVE JoinIds(_)
\* ids.join(',')
JoinIds(ids) ==
  IF ids = <<>> THEN <<>>
  ELSE IF Len(ids) = 1 THEN Chars(ids[1])
  ELSE Chars(ids[1]) \o <<",">> \o JoinIds(Tail(ids))

RECURSIVE SplitChars(_, _)
\* split the characters cs on ',', cur being the piece read so far
SplitChars(cs, cur) ==
  IF cs = <<>> THEN <<cur>>
  ELSE IF Head(cs) = "," THEN <<cur>> \o SplitChars(Tail(cs), <<>>)
  ELSE SplitChars(Tail(cs), Append(cur, Head(cs)))

\* row.ids.split(',')
SplitIds(col) ==
  LET pieces == SplitChars(col, <<>>)
  IN [i \in 1..Len(pieces) |-> Str(pieces[i])]

RECURSIVE SortIds(_)
\* the ids of s in index (BINARY text) order
SortIds(s) ==
  IF s = <<>> THEN <<>>
  ELSE LET front == SortIds(SubSeq(s, 1, Len(s) - 1))
           x == s[Len(s)]
           k == Cardinality({i \in 1..Len(front) : IdRank(front[i]) <= IdRank(x)})
       IN SubSeq(front, 1, k) \o <<x>> \o SubSeq(front, k + 1, Len(front))

RECURSIVE SortByVersion(_)
\* ORDER BY version ASC, rows of equal version in rowid order
SortByVersion(s) ==
  IF s = <<>> THEN <<>>
  ELSE LET front == SortByVersion(SubSeq(s, 1, Len(s) - 1))
           x == s[Len(s)]
           k == Cardinality({i \in 1..Len(front) : front[i].version <= x.version})
       IN SubSeq(front, 1, k) \o <<x>> \o SubSeq(front, k + 1, Len(front))

\* ------------------------------------------------------- JavaScript values
\* numbers: Num(n), the value Infinity and NaN
Num(n) == [k |-> "num", n |-> n]
Infinity == [k |-> "inf"]
NaN == [k |-> "nan"]

\* parseInt(arg, 10) of a path segment
ParseInt(arg) ==
  CASE arg = "0" -> Num(0)
    [] arg = "1" -> Num(1)
    [] arg = "2" -> Num(2)
    [] arg = "3" -> Num(3)
    [] arg = "4" -> Num(4)
    [] arg = "-1" -> Num(-1)
    [] OTHER -> NaN

\* Number(arg) of a path segment
NumberOf(arg) ==
  CASE arg = "0" -> Num(0)
    [] arg = "1" -> Num(1)
    [] arg = "2" -> Num(2)
    [] arg = "3" -> Num(3)
    [] arg = "4" -> Num(4)
    [] arg = "-1" -> Num(-1)
    [] arg = "Infinity" -> Infinity
    [] OTHER -> NaN

\* strings and JSON texts, as stored in KV and sent in responses
Text(str) == [t |-> "text", s |-> str]
Json(v) == [t |-> "json", v |-> v]
Blank == Text("")
Null == [t |-> "null"]
\* truthiness of a string or null
Truthy(x) == x.t = "json" \/ (x.t = "text" /\ x.s # "")

\* a JavaScript object is the sequence of its [k, v] properties in
\* enumeration order: array-index keys ascending, then the others in
\* insertion order
ObjectKeys(obj) == [i \in 1..Len(obj) |-> obj[i].k]
ObjHas(obj, key) == \E i \in 1..Len(obj) : obj[i].k = key
ObjGet(obj, key) == obj[CHOOSE i \in 1..Len(obj) : obj[i].k = key].v
\* an object whose keys are all enumerated in insertion order
ObjSet_Inserted(obj, key, val) ==
  IF ObjHas(obj, key)
  THEN [i \in 1..Len(obj) |-> IF obj[i].k = key THEN [k |-> key, v |-> val] ELSE obj[i]]
  ELSE Append(obj, [k |-> key, v |-> val])

ObjSet(obj, key, val) ==
  IF ObjHas(obj, key)
  THEN [i \in 1..Len(obj) |-> IF obj[i].k = key THEN [k |-> key, v |-> val] ELSE obj[i]]
  ELSE IF IsIndex(key)
  THEN LET n == Cardinality({i \in 1..Len(obj) :
                    IsIndex(obj[i].k) /\ IndexVal(obj[i].k) < IndexVal(key)})
       IN SubSeq(obj, 1, n) \o <<[k |-> key, v |-> val]>> \o SubSeq(obj, n + 1, Len(obj))
  ELSE Append(obj, [k |-> key, v |-> val])

\* --------------------------------------------------------------- cache.ts
UrlOf(tableName, varg, parg) ==
  "http://db.website.com/" \o tableName \o "/" \o varg \o "/" \o parg

\* cache.hash(data), tabulated for the URLs of the model (the values are
\* those of the 32-bit multiplicative hash of cache.ts, computed in double
\* arithmetic as JavaScript does)
hash(data) ==
  CASE data = "http://db.website.com/staff/0/0" -> "4197801648"
    [] data = "http://db.website.com/staff/0/1" -> "2557270112"
    [] data = "http://db.website.com/staff/0/2" -> "916738576"
    [] data = "http://db.website.com/staff/0/Infinity" -> "1033402880"
    [] data = "http://db.website.com/staff/0/-1" -> "3324612096"
    [] data = "http://db.website.com/staff/0/x" -> "2043648120"
    [] data = "http://db.website.com/staff/1/0" -> "211202048"
    [] data = "http://db.website.com/staff/1/1" -> "2865637376"
    [] data = "http://db.website.com/staff/1/2" -> "1225105920"
    [] data = "http://db.website.com/staff/1/Infinity" -> "3315220736"
    [] data = "http://db.website.com/staff/1/-1" -> "2364402944"
    [] data = "http://db.website.com/staff/1/x" -> "2352015360"
    [] data = "http://db.website.com/staff/2/0" -> "3503548928"
    [] data = "http://db.website.com/staff/2/1" -> "1863016960"
    [] data = "http://db.website.com/staff/2/2" -> "222485504"
    [] data = "http://db.website.com/staff/2/Infinity" -> "1960435968"
    [] data = "http://db.website.com/staff/2/-1" -> "2712471296"
    [] data = "http://db.website.com/staff/2/x" -> "1349394944"
    [] data = "http://db.website.com/staff/3/0" -> "2035567296"
    [] data = "http://db.website.com/staff/3/1" -> "395035776"
    [] data = "http://db.website.com/staff/3/2" -> "3049471488"
    [] data = "http://db.website.com/staff/3/Infinity" -> "3401374208"
    [] data = "http://db.website.com/staff/3/-1" -> "3271946240"
    [] data = "http://db.website.com/staff/3/x" -> "4176381056"
    [] data = "http://db.website.com/staff/4/0" -> "1498307840"
    [] data = "http://db.website.com/staff/4/1" -> "4152743680"
    [] data = "http://db.website.com/staff/4/2" -> "2512212224"
    [] data = "http://db.website.com/staff/4/Infinity" -> "2727718569"
    [] data = "http://db.website.com/staff/4/-1" -> "3408608256"
    [] data = "http://db.website.com/staff/4/x" -> "3639121664"
    [] data = "http://db.website.com/staff/-1/0" -> "83268608"
    [] data = "http://db.website.com/staff/-1/1" -> "2737703936"
    [] data = "http://db.website.com/staff/-1/2" -> "1097172480"
    [] data = "http://db.website.com/staff/-1/Infinity" -> "203183104"
    [] data = "http://db.website.com/staff/-1/-1" -> "2516488448"
    [] data = "http://db.website.com/staff/-1/x" -> "2224081920"
    [] data = "http://db.website.com/staff/x/0" -> "2751557376"
    [] data = "http://db.website.com/staff/x/1" -> "1111025920"
    [] data = "http://db.website.com/staff/x/2" -> "3765461760"
    [] data = "http://db.website.com/staff/x/Infinity" -> "3134668416"
    [] data = "http://db.website.com/staff/x/-1" -> "4068256768"
    [] data = "http://db.website.com/staff/x/x" -> "597403904"
    [] data = "http://db.website.com/patients/0/0" -> "3022090368"
    [] data = "http://db.website.com/patients/0/1" -> "1381558912"
    [] data = "http://db.website.com/patients/0/2" -> "4035994624"
    [] data = "http://db.website.com/patients/0/Infinity" -> "1397439488"
    [] data = "http://db.website.com/patients/0/-1" -> "2345874944"
    [] data = "http://db.website.com/patients/0/x" -> "867936896"
    [] data = "http://db.website.com/patients/1/0" -> "3330458112"
    [] data = "http://db.website.com/patients/1/1" -> "1689926144"
    [] data = "http://db.website.com/patients/1/2" -> "49394688"
    [] data = "http://db.website.com/patients/1/Infinity" -> "315197440"
    [] data = "http://db.website.com/patients/1/-1" -> "2343067392"
    [] data = "http://db.website.com/patients/1/x" -> "1176304128"
    [] data = "http://db.website.com/patients/2/0" -> "1397115392"
    [] data = "http://db.website.com/patients/2/1" -> "4051551232"
    [] data = "http://db.website.com/patients/2/2" -> "2411019776"
    [] data = "http://db.website.com/patients/2/Infinity" -> "3930840320"
    [] data = "http://db.website.com/patients/2/-1" -> "3113949184"
    [] data = "http://db.website.com/patients/2/x" -> "3537929216"
    [] data = "http://db.website.com/patients/3/0" -> "394495040"
    [] data = "http://db.website.com/patients/3/1" -> "3048930784"
    [] data = "http://db.website.com/patients/3/2" -> "1408399264"
    [] data = "http://db.website.com/patients/3/Infinity" -> "1106659328"
    [] data = "http://db.website.com/patients/3/-1" -> "124451840"
    [] data = "http://db.website.com/patients/3/x" -> "2535308800"
    [] data = "http://db.website.com/patients/4/0" -> "2756119808"
    [] data = "http://db.website.com/patients/4/1" -> "1115588352"
    [] data = "http://db.website.com/patients/4/2" -> "3770024192"
    [] data = "http://db.website.com/patients/4/Infinity" -> "2963530752"
    [] data = "http://db.website.com/patients/4/-1" -> "4232899072"
    [] data = "http://db.website.com/patients/4/x" -> "601966336"
    [] data = "http://db.website.com/patients/-1/0" -> "3003364864"
    [] data = "http://db.website.com/patients/-1/1" -> "1362832896"
    [] data = "http://db.website.com/patients/-1/2" -> "4017268736"
    [] data = "http://db.website.com/patients/-1/Infinity" -> "255698688"
    [] data = "http://db.website.com/patients/-1/-1" -> "1881477888"
    [] data = "http://db.website.com/patients/-1/x" -> "849210880"
    [] data = "http://db.website.com/patients/x/0" -> "1575846144"
    [] data = "http://db.website.com/patients/x/1" -> "4230281984"
    [] data = "http://db.website.com/patients/x/2" -> "2589750400"
    [] data = "http://db.website.com/patients/x/Infinity" -> "187074752"
    [] data = "http://db.website.com/patients/x/-1" -> "4046921728"
    [] data = "http://db.website.com/patients/x/x" -> "3716659968"

registryKey(tableName, account) == "[RK]" \o tableName \o "[IN]" \o account

KVGet(store, key) == IF key \in DOMAIN store THEN store[key] ELSE Null
KVPut(store, key, val) ==
  [k \in DOMAIN store \cup {key} |-> IF k = key THEN val ELSE store[k]]

\* a cache.put that lists the key in the registry and stores no data
CachePut_NoData(store, tableName, account, cacheKey, data) ==
  LET key == cacheKey \o "[IN]" \o account
      rk == registryKey(tableName, account)
      cur == KVGet(store, rk)
      registry == (IF Truthy(cur) THEN cur.v ELSE <<>>) \o <<key>>
  IN KVPut(store, rk, Json(registry))

\* cache.put
CachePut(store, tableName, account, cacheKey, data) ==
  LET key == cacheKey \o "[IN]" \o account
      s1 == KVPut(store, key, data)
      rk == registryKey(tableName, account)
      cur == KVGet(s1, rk)
      registry == (IF Truthy(cur) THEN cur.v ELSE <<>>) \o <<key>>
  IN KVPut(s1, rk, Json(registry))

\* a cache.get that reads the entries of acc1 for every account
CacheGet_Shared(store, cacheKey, account) == KVGet(store, cacheKey \o "[IN]" \o "acc1")

\* cache.get
CacheGet(store, cacheKey, account) == KVGet(store, cacheKey \o "[IN]" \o account)

RECURSIVE BlankAll(_, _)
BlankAll(store, cacheKeys) ==
  IF cacheKeys = <<>> THEN store
  ELSE BlankAll(KVPut(store, Head(cacheKeys), Blank), Tail(cacheKeys))

\* cache.nullify
CacheNullify(store, tableName, account) ==
  LET rk == registryKey(tableName, account)
      registry == KVGet(store, rk)
  IN IF ~Truthy(registry) THEN store
     ELSE KVPut(BlankAll(store, registry.v), rk, Json(<<>>))

\* ------------------------------------------------------------------ d1.ts
\* rows of tableRows matching WHERE account = ?, as (id, data), in rowid order
RowsOfAccount(tableRows, account) ==
  LET idx == {i \in 1..Len(tableRows) : tableRows[i].account = account}
      sel == SelectSeqBy(tableRows, {tableRows[i] : i \in idx})
  IN [i \in 1..Len(sel) |-> [id |-> sel[i].id, data |-> sel[i].data]]

\* MAX(version) without the WHERE account = ?
latestChangeVersion_AnyAccount(tableChanges, account) ==
  LET vs == {tableChanges[i].version : i \in 1..Len(tableChanges)}
  IN IF vs = {} THEN 0 ELSE CHOOSE v \in vs : \A w \in vs : w <= v

\* D1.latestChangeVersion: SELECT MAX(version), Number(null) being 0
latestChangeVersion(tableChanges, account) ==
  LET vs == {tableChanges[i].version :
               i \in {j \in 1..Len(tableChanges) : tableChanges[j].account = account}}
  IN IF vs = {} THEN 0 ELSE CHOOSE v \in vs : \A w \in vs : w <= v

\* fetchAll with OFFSET page in place of OFFSET page * MAX_FETCH_ROWS
fetchAll_OffsetPage(tableRows, tableChanges, account, page) ==
  IF page = Infinity
  THEN [rows |-> <<>>, version |-> latestChangeVersion(tableChanges, account)]
  ELSE IF page.n < 0 THEN [rows |-> <<>>, version |-> 0]
  ELSE [rows |-> Slice(RowsOfAccount(tableRows, account),
                       page.n, page.n + MAX_FETCH_ROWS),
        version |-> latestChangeVersion(tableChanges, account)]

\* D1.fetchAll(page)
fetchAll(tableRows, tableChanges, account, page) ==
  IF page = Infinity
  THEN [rows |-> <<>>, version |-> latestChangeVersion(tableChanges, account)]
  ELSE IF page.n < 0 THEN [rows |-> <<>>, version |-> 0]
  ELSE [rows |-> Slice(RowsOfAccount(tableRows, account),
                       page.n * MAX_FETCH_ROWS,
                       page.n * MAX_FETCH_ROWS + MAX_FETCH_ROWS),
        version |-> latestChangeVersion(tableChanges, account)]

\* the lookup without its AND account = ? clause
SelectBatch_NoAccount(tableRows, account, batch) ==
  LET hit == {i \in 1..Len(tableRows) : tableRows[i].id \in SeqToSet(batch)}
      found == SortIds(SelectSeqBy(batch, {tableRows[i].id : i \in hit}))
  IN [i \in 1..Len(found) |->
        [id |-> found[i],
         data |-> tableRows[CHOOSE j \in hit : tableRows[j].id = found[i]].data]]

\* SELECT id, data ... WHERE id IN (batch) AND account = ?: the matching
\* rows, found through the primary-key index, in index order
SelectBatch(tableRows, account, batch) ==
  LET hit == {i \in 1..Len(tableRows) :
                tableRows[i].account = account /\ tableRows[i].id \in SeqToSet(batch)}
      found == SortIds(SelectSeqBy(batch, {tableRows[i].id : i \in hit}))
  IN [i \in 1..Len(found) |->
        [id |-> found[i],
         data |-> tableRows[CHOOSE j \in hit : tableRows[j].id = found[i]].data]]

RECURSIVE FetchBatches(_, _, _)
FetchBatches(tableRows, account, ids) ==
  IF ids = <<>> THEN <<>>
  ELSE SelectBatch(tableRows, account, Slice(ids, 0, MAX_VARIABLES))
         \o FetchBatches(tableRows, account, Slice(ids, MAX_VARIABLES, Len(ids)))

\* a fetchRows that batches the ids as they come
fetchRows_Repeated(tableRows, account, ids) ==
  IF Len(ids) = 0 THEN <<>>
  ELSE FetchBatches(tableRows, account, ids)

\* D1.fetchRows(ids)
fetchRows(tableRows, account, ids) ==
  IF Len(ids) = 0 THEN <<>>
  ELSE FetchBatches(tableRows, account, Dedupe(ids))

\* a DELETE statement that removes no row
DeleteBatch_Keep(tableRows, account, batch) == tableRows

\* DELETE FROM table WHERE id IN (batch) AND account = ?
DeleteBatch(tableRows, account, batch) ==
  SelectSeqBy(tableRows,
    {tableRows[i] : i \in {j \in 1..Len(tableRows) :
        ~(tableRows[j].account = account /\ tableRows[j].id \in SeqToSet(batch))}})

RECURSIVE DeleteBatches(_, _, _)
DeleteBatches(tableRows, account, ids) ==
  IF ids = <<>> THEN tableRows
  ELSE DeleteBatches(DeleteBatch(tableRows, account, Slice(ids, 0, MAX_VARIABLES)),
                     account, Slice(ids, MAX_VARIABLES, Len(ids)))

\* D1.deleteRows(ids): the rows and the change log afterwards; an empty
\* list erases the account's rows and its change log
deleteRows(tableRows, tableChanges, account, ids) ==
  IF Len(ids) = 0
  THEN [rows |-> SelectSeqBy(tableRows,
                   {tableRows[i] : i \in {j \in 1..Len(tableRows) :
                                            tableRows[j].account # account}}),
        changes |-> SelectSeqBy(tableChanges,
                   {tableChanges[i] : i \in {j \in 1..Len(tableChanges) :
                                            tableChanges[j].account # account}})]
  ELSE [rows |-> DeleteBatches(tableRows, account, Dedupe(ids)),
        changes |-> tableChanges]

\* INSERT OR REPLACE INTO table (id, account, data): id is the primary key,
\* so the row that holds the id, of whatever account, is replaced
InsertOrReplace(tableRows, id, account, value) ==
  Append(SelectSeqBy(tableRows,
           {tableRows[i] : i \in {j \in 1..Len(tableRows) : tableRows[j].id # id}}),
         [id |-> id, account |-> account, data |-> value])

RECURSIVE upsertRow(_, _, _)
\* D1.upsertRow(data), data being an object id -> value
upsertRow(tableRows, account, data) ==
  IF data = <<>> THEN tableRows
  ELSE IF Head(data).k = "" THEN upsertRow(tableRows, account, Tail(data))
  ELSE upsertRow(InsertOrReplace(tableRows, Head(data).k, account, Head(data).v),
                 account, Tail(data))

\* D1.recordChange(version, ids)
recordChange(tableChanges, account, version, ids) ==
  IF Len(ids) = 0 THEN tableChanges
  ELSE Append(tableChanges,
              [version |-> version, account |-> account, ids |-> JoinIds(ids)])

\* the SELECT with version >= ? in the place of version > ?
ChangesSince_Inclusive(tableChanges, account, version) ==
  SortByVersion(SelectSeqBy(tableChanges,
    {tableChanges[i] : i \in {j \in 1..Len(tableChanges) :
        tableChanges[j].account = account /\ tableChanges[j].version >= version}}))

\* SELECT ids, version FROM changes WHERE account = ? AND version > ?
\* ORDER BY version ASC
ChangesSince(tableChanges, account, version) ==
  SortByVersion(SelectSeqBy(tableChanges,
    {tableChanges[i] : i \in {j \in 1..Len(tableChanges) :
        tableChanges[j].account = account /\ tableChanges[j].version > version}}))

RECURSIVE MaxVersion(_, _)
\* Math.max(...versions of queryResult, version)
MaxVersion(queryResult, version) ==
  IF queryResult = <<>> THEN version
  ELSE Max2(Head(queryResult).version, MaxVersion(Tail(queryResult), version))

RECURSIVE IdMapOfIds(_, _, _)
\* ids.forEach: keep for each id the greatest version seen
IdMapOfIds(idMap, ids, currentVersion) ==
  IF ids = <<>> THEN idMap
  ELSE IdMapOfIds(
         IF ~ObjHas(idMap, Head(ids)) \/ ObjGet(idMap, Head(ids)) < currentVersion
         THEN ObjSet(idMap, Head(ids), currentVersion) ELSE idMap,
         Tail(ids), currentVersion)

RECURSIVE BuildIdMap(_, _)
BuildIdMap(idMap, queryResult) ==
  IF queryResult = <<>> THEN idMap
  ELSE BuildIdMap(IdMapOfIds(idMap, SplitIds(Head(queryResult).ids),
                             Head(queryResult).version),
                  Tail(queryResult))

RECURSIVE FilterChangeRows(_, _)
\* changeRows.filter: keep in each row the ids whose latest version is the
\* row's, drop the rows left empty
FilterChangeRows(queryResult, idMap) ==
  IF queryResult = <<>> THEN <<>>
  ELSE LET ids == SplitIds(Head(queryResult).ids)
           kept == SelectSeq(ids, LAMBDA id : ObjGet(idMap, id) = Head(queryResult).version)
           rest == FilterChangeRows(Tail(queryResult), idMap)
       IN IF Len(kept) > 0
          THEN <<[version |-> Head(queryResult).version, ids |-> kept]>> \o rest
          ELSE rest

\* the changesData computed from the change log (d1.ts 102-130); queryResult
\* and idMap are computed once each
ComputeChangesData(tableChanges, account, version) ==
  CHOOSE changesData \in
    UNION {{[latestVersion |-> MaxVersion(queryResult, version),
             allIds |-> Dedupe(ObjectKeys(idMap)),
             changeRows |-> FilterChangeRows(queryResult, idMap),
             idMap |-> idMap] : idMap \in {BuildIdMap(<<>>, queryResult)}}
           : queryResult \in {ChangesSince(tableChanges, account, version)}} : TRUE

\* a page whose end is taken inclusive
RowsOfChangesData_Inclusive(tableRows, account, changesData, page) ==
  LET start == Max2(0, page * MAX_FETCH_ROWS)
      end == Min2(Len(changesData.allIds), start + MAX_FETCH_ROWS + 1)
      fetchedRows == fetchRows(tableRows, account, Slice(changesData.allIds, start, end))
  IN [rows |-> [i \in 1..Len(fetchedRows) |->
                  [id |-> fetchedRows[i].id, data |-> fetchedRows[i].data,
                   ts |-> ToString(ObjGet(changesData.idMap, fetchedRows[i].id))]],
      version |-> changesData.latestVersion]

\* the rows of a page of changesData, each tagged with ts (d1.ts 141-153)
RowsOfChangesData(tableRows, account, changesData, page) ==
  LET start == Max2(0, page * MAX_FETCH_ROWS)
      end == Min2(Len(changesData.allIds), start + MAX_FETCH_ROWS)
      fetchedRows == fetchRows(tableRows, account, Slice(changesData.allIds, start, end))
  IN [rows |-> [i \in 1..Len(fetchedRows) |->
                  [id |-> fetchedRows[i].id, data |-> fetchedRows[i].data,
                   ts |-> ToString(ObjGet(changesData.idMap, fetchedRows[i].id))]],
      version |-> changesData.latestVersion]

\* D1.getUpdatedRowsSince(version, page): the result and the KV store
\* afterwards
getUpdatedRowsSince(store, tableRows, tableChanges, tableName, account, version, page) ==
  LET cachedResult == CacheGet(store, ToString(version), account)
      changesData == IF Truthy(cachedResult) THEN cachedResult.v
                     ELSE ComputeChangesData(tableChanges, account, version)
  IN [res |-> RowsOfChangesData(tableRows, account, changesData, page),
      kv |-> IF Truthy(cachedResult) THEN store
             ELSE CachePut(store, tableName, account, ToString(version),
                           Json(changesData))]

\* --------------------------------------------------------------- index.ts
\* a page number that takes Infinity for page 0
PageOf_NoSentinel(parg) ==
  LET n == NumberOf(parg) IN IF n = NaN \/ n = Num(0) \/ n = Infinity THEN Num(0) ELSE n

\* Number(args[1] || '0') || 0
PageOf(parg) ==
  LET n == NumberOf(parg) IN IF n = NaN \/ n = Num(0) THEN Num(0) ELSE n

\* handleGet storing in the cache what it answers to an invalid version or
\* page as well
handleGet_CacheAll(store, tableRows, tableChanges, tableName, account, varg, parg) ==
  LET cacheKey == hash(UrlOf(tableName, varg, parg))
      cachedResponse == CacheGet(store, cacheKey, account)
      version == ParseInt(varg)
      page == PageOf(parg)
      cached(output) ==
        [success |-> FALSE, output |-> output, hit |-> FALSE, envHit |-> FALSE,
         kv |-> CachePut(store, tableName, account, cacheKey, output)]
  IN IF Truthy(cachedResponse)
     THEN [success |-> TRUE, output |-> cachedResponse,
           hit |-> TRUE, envHit |-> FALSE, kv |-> store]
     ELSE IF version = NaN \/ version.n < 0 THEN cached(Text("Invalid version"))
     ELSE IF page # Infinity /\ page.n < 0 THEN cached(Text("Invalid page"))
     ELSE LET full == version.n = 0 \/ page = Infinity
              pull == getUpdatedRowsSince(store, tableRows, tableChanges, tableName,
                                          account, version.n, page.n)
              res == IF full THEN fetchAll(tableRows, tableChanges, account, page)
                     ELSE pull.res
              output == Json(res)
          IN [success |-> TRUE, output |-> output, hit |-> FALSE,
              envHit |-> ~full /\ Truthy(CacheGet(store, ToString(version.n), account)),
              kv |-> CachePut(IF full THEN store ELSE pull.kv,
                              tableName, account, cacheKey, output)]

\* RequestHandler.handleGet: the response and the KV store afterwards; hit
\* and envHit tell whether the response and the changesData came from KV
handleGet(store, tableRows, tableChanges, tableName, account, varg, parg) ==
  LET cacheKey == hash(UrlOf(tableName, varg, parg))
      cachedResponse == CacheGet(store, cacheKey, account)
      version == ParseInt(varg)
      page == PageOf(parg)
      miss == [hit |-> FALSE, envHit |-> FALSE, kv |-> store]
  IN IF Truthy(cachedResponse)
     THEN [success |-> TRUE, output |-> cachedResponse,
           hit |-> TRUE, envHit |-> FALSE, kv |-> store]
     ELSE IF version = NaN \/ version.n < 0
     THEN [success |-> FALSE, output |-> Text("Invalid version")] @@ miss
     ELSE IF page # Infinity /\ page.n < 0
     THEN [success |-> FALSE, output |-> Text("Invalid page")] @@ miss
     ELSE LET full == version.n = 0 \/ page = Infinity
              pull == getUpdatedRowsSince(store, tableRows, tableChanges, tableName,
                                          account, version.n, page.n)
              res == IF full THEN fetchAll(tableRows, tableChanges, account, page)
                     ELSE pull.res
              output == Json(res)
          IN [success |-> TRUE, output |-> output, hit |-> FALSE,
              envHit |-> ~full /\ Truthy(CacheGet(store, ToString(version.n), account)),
              kv |-> CachePut(IF full THEN store ELSE pull.kv,
                              tableName, account, cacheKey, output)]

\* RequestHandler.handlePut with the parsed body data, stamped changeVersion
handlePut(store, tableRows, tableChanges, tableName, account, data, changeVersion) ==
  IF Len(ObjectKeys(data)) = 0
  THEN [success |-> FALSE, output |-> Text("JSON body is empty"),
        rows |-> tableRows, changes |-> tableChanges, kv |-> store]
  ELSE [success |-> TRUE, output |-> Text(ToString(changeVersion)),
        rows |-> upsertRow(tableRows, account, data),
        kv |-> CacheNullify(store, tableName, account),
        changes |-> recordChange(tableChanges, account, changeVersion, ObjectKeys(data))]

\* handleDelete without its test of ids.length
handleDelete_NoTest(store, tableRows, tableChanges, tableName, account, ids, changeVersion) ==
  LET del == deleteRows(tableRows, tableChanges, account, ids)
  IN [success |-> TRUE, output |-> Text(ToString(changeVersion)),
      rows |-> del.rows,
      kv |-> CacheNullify(store, tableName, account),
      changes |-> recordChange(del.changes, account, changeVersion, ids)]

\* RequestHandler.handleDelete with the path segments ids
handleDelete(store, tableRows, tableChanges, tableName, account, ids, changeVersion) ==
  IF Len(ids) = 0
  THEN [success |-> FALSE, output |-> Text("No IDs provided"),
        rows |-> tableRows, changes |-> tableChanges, kv |-> store]
  ELSE LET del == deleteRows(tableRows, tableChanges, account, ids)
       IN [success |-> TRUE, output |-> Text(ToString(changeVersion)),
           rows |-> del.rows,
           kv |-> CacheNullify(store, tableName, account),
           changes |-> recordChange(del.changes, account, changeVersion, ids)]

\* src/src/variables.ts
SUPPORTED_METHODS == {"GET", "PUT", "DELETE", "OPTIONS", "HEAD"}

\* an Authorization header is absent or carries a token; a token is what
\* the auth server says of it (valid) and the payload.prefix it decodes to
\* ("" when the payload has none)
NoHeader == [present |-> FALSE, valid |-> FALSE, prefix |-> ""]
Bearer(valid, prefix) == [present |-> TRUE, valid |-> valid, prefix |-> prefix]

\* an authenticate that takes the prefix of any token
authenticate_Trusting(token) == [success |-> TRUE, account |-> token.prefix]

\* Auth.authenticate(token)
authenticate(token) ==
  IF ~token.valid THEN [success |-> FALSE, account |-> ""]
  ELSE [success |-> TRUE, account |-> token.prefix]

\* a request body is unreadable as JSON or holds an object
NoBody == [ok |-> FALSE, data |-> <<>>]
JsonBody(data) == [ok |-> TRUE, data |-> data]

\* url.pathname.split('/').slice(2).filter((arg) => arg)
ArgsOf(segments) == SelectSeq(segments, LAMBDA arg : arg # "")

\* RequestHandler.handle for the request [method, authorization, table,
\* segments, body], segments being the path segments after the table; a
\* GET carries its two segments version and page. The response, the
\* account it was served for ("" before authentication) and the row
\* tables, change logs and KV store afterwards.
handle(store, allRows, allChanges, request, changeVersion) ==
  LET rejected(output) ==
        [success |-> FALSE, output |-> Text(output), account |-> "",
         rows |-> allRows, changes |-> allChanges, kv |-> store]
      authResult == authenticate(request.authorization)
      account == authResult.account
      tableName == request.table
      args == ArgsOf(request.segments)
  IN IF request.method \notin SUPPORTED_METHODS THEN rejected("Invalid method")
     ELSE IF request.method \in {"OPTIONS", "HEAD"}
     THEN [rejected("OK") EXCEPT !.success = TRUE]
     ELSE IF ~request.authorization.present
     THEN rejected("Authorization header is missing")
     ELSE IF ~authResult.success \/ account = ""
     THEN rejected("Authorization failed")
     ELSE IF tableName \notin VALID_TABLES THEN rejected("Invalid table name")
     ELSE IF request.method = "GET"
     THEN LET r == handleGet(store, allRows[tableName], allChanges[tableName],
                             tableName, account, args[1], args[2])
          IN [success |-> r.success, output |-> r.output, account |-> account,
              rows |-> allRows, changes |-> allChanges, kv |-> r.kv]
     ELSE IF request.method = "PUT" /\ ~request.body.ok
     THEN [rejected("Request body is empty or invalid") EXCEPT !.account = account]
     ELSE LET r == IF request.method = "PUT"
                   THEN handlePut(store, allRows[tableName], allChanges[tableName],
                                  tableName, account, request.body.data, changeVersion)
                   ELSE handleDelete(store, allRows[tableName], allChanges[tableName],
                                     tableName, account, args, changeVersion)
          IN [success |-> r.success, output |-> r.output, account |-> account,
              rows |-> [allRows EXCEPT ![tableName] = r.rows],
              changes |-> [allChanges EXCEPT ![tableName] = r.changes],
              kv |-> r.kv]

\* ------------------------------------------------------------------ state
VARIABLES
  rows,      \* rows[t]: the row table t
  changes,   \* changes[t]: the table t_changes
  kv,        \* the KV namespace CACHE
  now,       \* the value of Date.now()
  envTable,  \* history: the table whose change log a cached changesData came from
  last,      \* the last request and its response
  procs      \* procs[p]: the request in flight in slot p and where it stands

vars == <<rows, changes, kv, now, envTable, last, procs>>

\* the request bodies of a PUT: objects of at most two properties
IsObject(obj) ==
  /\ \A i, j \in 1..Len(obj) : obj[i].k = obj[j].k => i = j
  /\ \A i, j \in 1..Len(obj) :
       i < j => \/ ~IsIndex(obj[j].k)
                \/ IsIndex(obj[i].k) /\ IndexVal(obj[i].k) < IndexVal(obj[j].k)

\* objects of at most n properties with keys in IS and payloads in DS
PutBodies(account, IS, n, DS) ==
  LET Prop == [k : IS, v : DataOf(account, DS)]
  IN {obj \in UNION {[1..m -> Prop] : m \in 1..n} : IsObject(obj)}

\* the path segments of a DELETE: at most n ids of IS
DeleteArgs(IS, n) == UNION {[1..m -> IS] : m \in 1..n}

\* the slots a request can run in
Slots == {1, 2}

\* a free slot; of a request in flight: pc is the await it stands at, data
\* the body entries still to insert, ids the ids to record, todo the batch
\* ids or cache keys still to go, found the rows read so far, putting what
\* cache.put is storing, overlap (history) whether a write was in flight
\* at some point since the request started
Idle ==
  [pc |-> "idle", method |-> "", account |-> "", table |-> "", varg |-> "",
   parg |-> "", data |-> <<>>, ids |-> <<>>, todo |-> <<>>, found |-> <<>>,
   changesData |-> [latestVersion |-> 0, allIds |-> <<>>, changeRows |-> <<>>,
                    idMap |-> <<>>],
   output |-> Null, putting |-> "", registry |-> <<>>, changeVersion |-> 0,
   envHit |-> FALSE, overlap |-> FALSE]

NoRequest ==
  [method |-> "", account |-> "", table |-> "", varg |-> "", parg |-> "",
   success |-> FALSE, output |-> Null,
   hit |-> FALSE, envHit |-> FALSE, envFrom |-> ""]

Init ==
  /\ rows = [t \in Tables |-> <<>>]
  /\ changes = [t \in Tables |-> <<>>]
  /\ kv = [k \in {} |-> Null]
  /\ now = 1
  /\ envTable = [k \in {} |-> ""]
  /\ last = NoRequest
  /\ procs = [p \in Slots |-> Idle]

\* the clock advances
Tick ==
  /\ now < MaxClock
  /\ now' = now + 1
  /\ UNCHANGED <<rows, changes, kv, envTable, last, procs>>

\* a GET /t/varg/parg of an authenticated account
Get(a, t, varg, parg) ==
  LET r == handleGet(kv, rows[t], changes[t], t, a, varg, parg)
      envKey == ToString(ParseInt(varg).n) \o "[IN]" \o a
      pulled == r.success /\ ~r.hit /\ ParseInt(varg).n # 0 /\ PageOf(parg) # Infinity
  IN /\ kv' = r.kv
     /\ envTable' = IF pulled /\ ~r.envHit
                    THEN [k \in DOMAIN envTable \cup {envKey} |->
                            IF k = envKey THEN t ELSE envTable[k]]
                    ELSE envTable
     /\ last' = [NoRequest EXCEPT !.method = "GET", !.account = a, !.table = t,
                   !.varg = varg, !.parg = parg, !.success = r.success,
                   !.output = r.output, !.hit = r.hit, !.envHit = r.envHit,
                   !.envFrom = IF pulled THEN envTable'[envKey] ELSE ""]
     /\ UNCHANGED <<rows, changes, now, procs>>

\* a PUT /t with body data
Put(a, t, data) ==
  LET r == handlePut(kv, rows[t], changes[t], t, a, data, now)
  IN /\ Len(changes[t]) < MaxLog
     /\ rows' = [rows EXCEPT ![t] = r.rows]
     /\ changes' = [changes EXCEPT ![t] = r.changes]
     /\ kv' = r.kv
     /\ last' = [NoRequest EXCEPT !.method = "PUT", !.account = a, !.table = t,
                   !.success = r.success, !.output = r.output]
     /\ UNCHANGED <<now, envTable, procs>>

\* a DELETE /t/id1/id2...
Delete(a, t, ids) ==
  LET r == handleDelete(kv, rows[t], changes[t], t, a, ids, now)
  IN /\ Len(changes[t]) < MaxLog
     /\ rows' = [rows EXCEPT ![t] = r.rows]
     /\ changes' = [changes EXCEPT ![t] = r.changes]
     /\ kv' = r.kv
     /\ last' = [NoRequest EXCEPT !.method = "DELETE", !.account = a, !.table = t,
                   !.success = r.success, !.output = r.output]
     /\ UNCHANGED <<now, envTable, procs>>

\* requests one at a time: fetches of the accounts FS and writes of the
\* accounts AS on the tables TS, with at most n ids of IS in a request,
\* payloads of DS and the path segments VS and PS
NextOver(FS, AS, TS, IS, n, DS, VS, PS) ==
  \/ Tick
  \/ \E a \in FS, t \in TS, varg \in VS, parg \in PS : Get(a, t, varg, parg)
  \/ \E a \in AS, t \in TS : \E data \in PutBodies(a, IS, n, DS) : Put(a, t, data)
  \/ \E a \in AS, t \in TS, ids \in DeleteArgs(IS, n) : Delete(a, t, ids)

\* two tenants write to one table and one of them fetches
Next == NextOver({"acc2"}, Accounts, {"staff"}, Ids, 1, {"x"}, {"0", "1"}, {"0"})
Spec == Init /\ [][Next]_vars

\* one tenant on two tables
NextTables == NextOver({"acc1"}, {"acc1"}, Tables, {"1"}, 1, {"x"}, {"1"}, {"0"})
SpecTables == Init /\ [][NextTables]_vars

\* one tenant on one table, full scans, pulls and the infinite page
NextVersions ==
  NextOver({"acc1"}, {"acc1"}, {"staff"}, {"1"}, 1, Payloads, {"0", "2"}, {"0", "Infinity"})
SpecVersions == Init /\ [][NextVersions]_vars

\* one tenant on one table: bodies with an empty key and paths with a
\* repeated id
NextWrites ==
  \/ Tick
  \/ \E varg \in {"0", "1"} : Get("acc1", "staff", varg, "0")
  \/ \E data \in PutBodies("acc1", {"", "1", "a"}, 2, {"x"}) : Put("acc1", "staff", data)
  \/ \E ids \in DeleteArgs({"1"}, 2) : Delete("acc1", "staff", ids)
SpecWrites == Init /\ [][NextWrites]_vars

\* one tenant on one table: bodies of one or two rows, paths of one or
\* two ids
NextDeletes ==
  \/ Tick
  \/ \E varg \in {"0", "1"} : Get("acc1", "staff", varg, "0")
  \/ \E data \in PutBodies("acc1", Ids, 2, {"x"}) : Put("acc1", "staff", data)
  \/ \E ids \in DeleteArgs({"1"}, 2) : Delete("acc1", "staff", ids)
SpecDeletes == Init /\ [][NextDeletes]_vars

\* one tenant on two tables, three rows in a body and pages 0 and 1 of the
\* pull since 1
NextPages ==
  \/ Tick
  \/ Get("acc1", "patients", "1", "0")
  \/ \E parg \in {"0", "1"} : Get("acc1", "staff", "1", parg)
  \/ \E data \in PutBodies("acc1", {"b"}, 1, {"x"}) : Put("acc1", "staff", data)
  \/ \E data \in {d \in PutBodies("acc1", {"1", "a", "b"}, 3, {"x"}) : Len(d) = 3} :
       Put("acc1", "patients", data)
SpecPages == Init /\ [][NextPages]_vars

\* two tenants write to one table and one of them asks for the infinite
\* page with the baselines 0 and 2
NextSentinel ==
  NextOver({"acc1"}, Accounts, {"staff"}, {"1"}, 1, {"x"}, {"0", "2"}, {"Infinity"})
SpecSentinel == Init /\ [][NextSentinel]_vars

\* two tenants write to one table and pull from it with the same URL
NextShared == NextOver(Accounts, Accounts, {"staff"}, {"1"}, 1, {"x"}, {"1"}, {"0"})
SpecShared == Init /\ [][NextShared]_vars

\* env.DB.exec on the table t, past the worker: an INSERT OR REPLACE of the
\* rows of data, or a DELETE of every row (request.spec.ts 237, 253)
DBInsert(a, t, data) ==
  /\ rows' = [rows EXCEPT ![t] = upsertRow(rows[t], a, data)]
  /\ rows' # rows
  /\ UNCHANGED <<changes, kv, now, envTable, last, procs>>

DBDeleteAll(t) ==
  /\ rows[t] # <<>>
  /\ rows' = [rows EXCEPT ![t] = <<>>]
  /\ UNCHANGED <<changes, kv, now, envTable, last, procs>>

\* one tenant fetches and writes through the worker while the table is
\* changed past it
NextOutOfBand ==
  \/ Tick
  \/ \E varg \in {"0", "1"} : Get("acc1", "staff", varg, "0")
  \/ \E data \in PutBodies("acc1", {"1"}, 1, {"x"}) : Put("acc1", "staff", data)
  \/ \E data \in PutBodies("acc1", Ids, 1, {"y"}) : DBInsert("acc1", "staff", data)
  \/ DBDeleteAll("staff")
SpecOutOfBand == Init /\ [][NextOutOfBand]_vars

\* GETs of one tenant whose page segment is a number, negative or not a
\* number, and writes
NextBadPages ==
  \/ Tick
  \/ \E varg \in {"0", "1"}, parg \in {"0", "-1", "x"} : Get("acc1", "staff", varg, parg)
  \/ \E data \in PutBodies("acc1", {"1"}, 1, {"x"}) : Put("acc1", "staff", data)
SpecBadPages == Init /\ [][NextBadPages]_vars

\* ------------------------------------------ requests as the worker gets them
\* a request that passes every validation of its handler
WellFormed(request) ==
  CASE request.method = "GET" ->
         /\ ParseInt(request.segments[1]) # NaN /\ ParseInt(request.segments[1]).n >= 0
         /\ PageOf(request.segments[2]) = Infinity \/ PageOf(request.segments[2]).n >= 0
    [] request.method = "PUT" -> request.body.ok /\ Len(request.body.data) > 0
    [] request.method = "DELETE" -> ArgsOf(request.segments) # <<>>
    [] OTHER -> FALSE

\* the requests of the accounts AS on the table t, with at most n ids or
\* properties, whatever their segments and body; and the well-formed ones
\* again with an Authorization header that is missing, refused by the auth
\* server or without prefix, and on the table backups
Requests(AS, t, IS, n, DS, VS, PS) ==
  LET Authorized == {Bearer(TRUE, a) : a \in AS}
      Gets == [method : {"GET"}, authorization : Authorized, table : {t},
               segments : {<<varg, parg>> : varg \in VS, parg \in PS},
               body : {NoBody}]
      Puts == [method : {"PUT"}, authorization : Authorized, table : {t},
               segments : {<<>>},
               body : {NoBody, JsonBody(<<>>)}
                        \cup {JsonBody(data) :
                                data \in UNION {PutBodies(a, IS, n, DS) : a \in AS}}]
      Deletes == [method : {"DELETE"}, authorization : Authorized, table : {t},
                  segments : {<<>>, <<"">>} \cup DeleteArgs(IS \ {""}, n),
                  body : {NoBody}]
      Others == [method : {"POST", "OPTIONS", "HEAD"}, authorization : Authorized,
                 table : {t}, segments : {<<>>}, body : {NoBody}]
      Passing == {request \in Gets \cup Puts \cup Deletes : WellFormed(request)}
  IN Gets \cup Puts \cup Deletes \cup Others
       \cup {[request EXCEPT !.authorization = h] :
               request \in Passing,
               h \in {NoHeader, Bearer(FALSE, "acc1"), Bearer(TRUE, "")}}
       \cup {[request EXCEPT !.table = "backups"] : request \in Passing}

\* what Request keeps of handleGet for a request that handle does not pass
\* to it
NotFetched == [success |-> FALSE, hit |-> FALSE, envHit |-> FALSE]

\* the worker serves the request
Request(request) ==
  \E r \in {handle(kv, rows, changes, request, now)} :
    LET a == r.account
        t == request.table
        isGet == request.method = "GET" /\ a # "" /\ t \in VALID_TABLES
        varg == IF isGet THEN request.segments[1] ELSE ""
        parg == IF isGet THEN request.segments[2] ELSE ""
    IN \E g \in {IF isGet THEN handleGet(kv, rows[t], changes[t], t, a, varg, parg)
                 ELSE NotFetched} :
         LET envKey == ToString(ParseInt(varg).n) \o "[IN]" \o a
             pulled == isGet /\ g.success /\ ~g.hit /\ ParseInt(varg).n # 0
                         /\ PageOf(parg) # Infinity
         IN /\ \A u \in Tables : Len(r.changes[u]) <= MaxLog
            /\ rows' = r.rows
            /\ changes' = r.changes
            /\ kv' = r.kv
            /\ envTable' = IF pulled /\ ~g.envHit
                           THEN [k \in DOMAIN envTable \cup {envKey} |->
                                   IF k = envKey THEN t ELSE envTable[k]]
                           ELSE envTable
            /\ last' = [NoRequest EXCEPT !.method = request.method, !.account = a,
                          !.table = t, !.varg = varg, !.parg = parg,
                          !.success = r.success, !.output = r.output,
                          !.hit = g.hit, !.envHit = g.envHit,
                          !.envFrom = IF pulled THEN envTable'[envKey] ELSE ""]
            /\ UNCHANGED <<now, procs>>

\* requests of every kind, one at a time, of one tenant on one table
NextRequests ==
  \/ Tick
  \/ \E request \in Requests({"acc1"}, "staff", {"1"}, 1, {"x"},
                             {"1", "x"}, {"0", "-1"}) :
       Request(request)
SpecRequests == Init /\ [][NextRequests]_vars

\* the requests of every method, with every kind of Authorization header, on
\* a valid and on an invalid table, well-formed or not for their handler
AnyRequests ==
  LET Headers == {NoHeader, Bearer(FALSE, "acc1"), Bearer(TRUE, ""), Bearer(TRUE, "acc1")}
      Names == {"staff", "invalid_table"}
  IN [method : {"GET"}, authorization : Headers, table : Names,
      segments : {<<"1", "0">>, <<"x", "0">>, <<"1", "-1">>}, body : {NoBody}]
     \cup [method : {"PUT"}, authorization : Headers, table : Names, segments : {<<>>},
           body : {NoBody, JsonBody(<<>>)}
                    \cup {JsonBody(data) : data \in PutBodies("acc1", {"1"}, 1, {"x"})}]
     \cup [method : {"DELETE"}, authorization : Headers, table : Names,
           segments : {<<>>, <<"1">>}, body : {NoBody}]
     \cup [method : {"POST", "OPTIONS", "HEAD"}, authorization : Headers, table : Names,
           segments : {<<>>}, body : {NoBody}]

\* requests that fail none, one or several of the checks of handle
NextOrder ==
  \/ Tick
  \/ \E request \in AnyRequests : Request(request)
SpecOrder == Init /\ [][NextOrder]_vars

\* ------------------------------------------------- the D1 class, called directly
\* d1.getUpdatedRowsSince(version, page)
D1Pull(a, t, version, page) ==
  LET r == getUpdatedRowsSince(kv, rows[t], changes[t], t, a, version, page)
      envKey == ToString(version) \o "[IN]" \o a
      envHit == Truthy(CacheGet(kv, ToString(version), a))
  IN /\ kv' = r.kv
     /\ envTable' = IF envHit THEN envTable
                    ELSE [k \in DOMAIN envTable \cup {envKey} |->
                            IF k = envKey THEN t ELSE envTable[k]]
     /\ last' = [NoRequest EXCEPT !.method = "getUpdatedRowsSince", !.account = a,
                   !.table = t, !.varg = ToString(version), !.parg = ToString(page),
                   !.success = TRUE, !.output = Json(r.res), !.envHit = envHit,
                   !.envFrom = envTable'[envKey]]
     /\ UNCHANGED <<rows, changes, now, procs>>

\* d1.upsertRow(data)
D1Upsert(a, t, data) ==
  /\ rows' = [rows EXCEPT ![t] = upsertRow(rows[t], a, data)]
  /\ last' = [NoRequest EXCEPT !.method = "upsertRow", !.account = a, !.table = t]
  /\ UNCHANGED <<changes, kv, now, envTable, procs>>

\* d1.deleteRows(ids) with some ids
D1Delete(a, t, ids) ==
  LET del == deleteRows(rows[t], changes[t], a, ids)
  IN /\ rows' = [rows EXCEPT ![t] = del.rows]
     /\ changes' = [changes EXCEPT ![t] = del.changes]
     /\ last' = [NoRequest EXCEPT !.method = "deleteRows", !.account = a, !.table = t]
     /\ UNCHANGED <<kv, now, envTable, procs>>

\* d1.recordChange(version, ids)
D1Record(a, t, version, ids) ==
  /\ Len(changes[t]) < MaxLog
  /\ changes' = [changes EXCEPT ![t] = recordChange(changes[t], a, version, ids)]
  /\ last' = [NoRequest EXCEPT !.method = "recordChange", !.account = a, !.table = t,
                !.varg = ToString(version)]
  /\ UNCHANGED <<rows, kv, now, envTable, procs>>

\* cache.nullify({cacheKV, tableName, account})
D1Nullify(a, t) ==
  /\ kv' = CacheNullify(kv, t, a)
  /\ last' = [NoRequest EXCEPT !.method = "nullify", !.account = a, !.table = t]
  /\ UNCHANGED <<rows, changes, now, envTable, procs>>

\* calls of the methods of D1 and of cache.nullify, as the tests of d1.ts
\* make them, for the account a
NextD1Over(a, TS, IS, n, VS, PS) ==
  \/ \E t \in TS, version \in VS, page \in PS : D1Pull(a, t, version, page)
  \/ \E t \in TS : \E data \in PutBodies(a, IS, 1, {"x"}) : D1Upsert(a, t, data)
  \/ \E t \in TS, ids \in DeleteArgs(IS, 1) : D1Delete(a, t, ids)
  \/ \E t \in TS, version \in 1..MaxClock, ids \in DeleteArgs(IS, n) :
        D1Record(a, t, version, ids)
  \/ \E t \in TS : D1Nullify(a, t)

\* two tables, one baseline
NextD1Tables == NextD1Over("acc1", Tables, {"1"}, 1, {1}, {0})
SpecD1Tables == Init /\ [][NextD1Tables]_vars

\* d1.fetchAll(page)
D1Scan(a, t, page) ==
  /\ last' = [NoRequest EXCEPT !.method = "fetchAll", !.account = a, !.table = t,
                !.parg = ToString(page), !.success = TRUE,
                !.output = Json(fetchAll(rows[t], changes[t], a, Num(page)))]
  /\ UNCHANGED <<rows, changes, kv, now, envTable, procs>>

\* the pages asked of a full scan
ScanPages == {0, 1, 2}

\* two tenants fill one table with up to four rows and scan it page by page
NextD1Scans ==
  \/ \E a \in Accounts, page \in ScanPages : D1Scan(a, "staff", page)
  \/ \E a \in Accounts :
       \E data \in PutBodies(a, {"1", "2", "a", "b"}, 1, {"x"}) : D1Upsert(a, "staff", data)
  \/ \E a \in Accounts, ids \in DeleteArgs({"1"}, 1) : D1Delete(a, "staff", ids)
SpecD1Scans == Init /\ [][NextD1Scans]_vars

\* d1.deleteRows called with an empty and with a non-empty list, between
\* upserts and recorded changes of two tenants
NextD1Deletes ==
  \/ \E a \in Accounts :
       \E data \in PutBodies(a, {"1", "a"}, 1, {"x"}) : D1Upsert(a, "staff", data)
  \/ \E a \in Accounts, version \in 1..MaxClock, ids \in DeleteArgs({"1", "a"}, 1) :
       D1Record(a, "staff", version, ids)
  \/ \E a \in Accounts, ids \in {<<>>} \cup DeleteArgs({"1"}, 1) : D1Delete(a, "staff", ids)
SpecD1Deletes == Init /\ [][NextD1Deletes]_vars

\* d1.fetchRows(ids): the call and what it returned
D1Fetch(a, t, ids) ==
  /\ last' = [NoRequest EXCEPT !.method = "fetchRows", !.account = a, !.table = t,
                !.success = TRUE,
                !.output = Json([ids |-> ids, rows |-> fetchRows(rows[t], a, ids)])]
  /\ UNCHANGED <<rows, changes, kv, now, envTable, procs>>

\* the lists asked of fetchRows: empty, with repeated ids, longer than a
\* batch
FetchedLists == {<<>>} \cup DeleteArgs({"1", "a", "b"}, 3)

\* two tenants fill one table, rows are deleted, and fetchRows looks ids up
NextD1Fetches ==
  \/ \E a \in Accounts, ids \in FetchedLists : D1Fetch(a, "staff", ids)
  \/ \E a \in Accounts :
       \E data \in PutBodies(a, {"1", "a"}, 1, {"x"}) : D1Upsert(a, "staff", data)
  \/ \E a \in Accounts, ids \in DeleteArgs({"1"}, 1) : D1Delete(a, "staff", ids)
SpecD1Fetches == Init /\ [][NextD1Fetches]_vars

\* two tenants insert rows, record changes and scan the table
NextD1Versions ==
  \/ \E a \in Accounts, page \in {0, 1} : D1Scan(a, "staff", page)
  \/ \E a \in Accounts :
       \E data \in PutBodies(a, {"1"}, 1, {"x"}) : D1Upsert(a, "staff", data)
  \/ \E a \in Accounts, version \in 1..MaxClock, ids \in DeleteArgs({"1"}, 1) :
       D1Record(a, "staff", version, ids)
SpecD1Versions == Init /\ [][NextD1Versions]_vars

\* the lists of ids that a body or a path gives to recordChange, one of the
\* ids holding a comma
RecordedLists == DeleteArgs({"1", "a", "a,2"}, 2)

\* recordChange with these lists, and the pull that reads the entries
NextRecords ==
  \/ \E version \in 1..MaxClock, ids \in RecordedLists :
       D1Record("acc1", "staff", version, ids)
  \/ D1Pull("acc1", "staff", 0, 0)
SpecRecords == Init /\ [][NextRecords]_vars

\* ---------------------------------------- the reconstruction, on any change log
\* the change logs of at most MaxLog entries, of at most n distinct ids of
\* IS each
ChangeLogs(a, IS, n) ==
  LET Entry == {[version |-> v, account |-> a, ids |-> JoinIds(l)] :
                  v \in 1..MaxClock,
                  l \in {d \in DeleteArgs(IS, n) : Dedupe(d) = d}}
  IN UNION {[1..m -> Entry] : m \in 0..MaxLog}

\* the account holds the rows 1 and b, the change log is any log over the
\* ids 1, a and b
InitRecon ==
  /\ rows = [t \in Tables |->
               IF t = "staff"
               THEN <<[id |-> "1", account |-> "acc1", data |-> <<"acc1", "x">>],
                      [id |-> "b", account |-> "acc1", data |-> <<"acc1", "y">>]>>
               ELSE <<>>]
  /\ \E log \in ChangeLogs("acc1", {"1", "a", "b"}, 2) :
       changes = [t \in Tables |-> IF t = "staff" THEN log ELSE <<>>]
  /\ kv = [k \in {} |-> Null]
  /\ now = 1
  /\ envTable = [k \in {} |-> ""]
  /\ last = NoRequest
  /\ procs = [p \in Slots |-> Idle]

\* the pages of the pull since 0
NextRecon == \E page \in {0, 1} : D1Pull("acc1", "staff", 0, page)

SpecRecon == InitRecon /\ [][NextRecon]_vars

\* the account holds the rows 1, 2 and a, the change log is any log over
\* these ids, two of which are array indices for Object.keys
InitKeys ==
  /\ rows = [t \in Tables |->
               IF t = "staff"
               THEN [i \in 1..3 |-> [id |-> <<"1", "2", "a">>[i], account |-> "acc1",
                                      data |-> <<"acc1", "x">>]]
               ELSE <<>>]
  /\ \E log \in ChangeLogs("acc1", {"1", "2", "a"}, 2) :
       changes = [t \in Tables |-> IF t = "staff" THEN log ELSE <<>>]
  /\ kv = [k \in {} |-> Null]
  /\ now = 1
  /\ envTable = [k \in {} |-> ""]
  /\ last = NoRequest
  /\ procs = [p \in Slots |-> Idle]

\* the pages of the pull since 1
NextKeys == \E page \in {0, 1} : D1Pull("acc1", "staff", 1, page)

SpecKeys == InitKeys /\ [][NextKeys]_vars

\* ---------------------------------- requests in flight, one await at a time
\* a write runs in slot q
InFlightWrite(q) == procs[q].pc # "idle" /\ procs[q].method \in {"PUT", "DELETE"}

\* the request me of slot p is answered and the slot is free again
Respond(p, me, success, output, hit) ==
  /\ last' = [NoRequest EXCEPT !.method = me.method, !.account = me.account,
                !.table = me.table, !.varg = me.varg, !.parg = me.parg,
                !.success = success, !.output = output, !.hit = hit,
                !.envHit = me.envHit]
  /\ procs' = [procs EXCEPT ![p] = Idle]

\* a GET /t/varg/parg arrives
GetStart(p, a, t, varg, parg) ==
  /\ procs[p].pc = "idle"
  /\ procs' = [procs EXCEPT ![p] =
       [Idle EXCEPT !.pc = "cacheGet", !.method = "GET", !.account = a, !.table = t,
                    !.varg = varg, !.parg = parg,
                    !.overlap = \E q \in Slots \ {p} : InFlightWrite(q)]]
  /\ UNCHANGED <<rows, changes, kv, now, envTable, last>>

\* handleGet up to the call of fetchAll or getUpdatedRowsSince (index.ts 71-99)
GetCached(p) ==
  LET me == procs[p]
      cachedResponse == CacheGet(kv, hash(UrlOf(me.table, me.varg, me.parg)), me.account)
      version == ParseInt(me.varg)
      page == PageOf(me.parg)
  IN /\ me.pc = "cacheGet"
     /\ IF Truthy(cachedResponse) THEN Respond(p, me, TRUE, cachedResponse, TRUE)
        ELSE IF version = NaN \/ version.n < 0
        THEN Respond(p, me, FALSE, Text("Invalid version"), FALSE)
        ELSE IF page # Infinity /\ page.n < 0
        THEN Respond(p, me, FALSE, Text("Invalid page"), FALSE)
        ELSE /\ procs' = [procs EXCEPT ![p].pc =
                  IF page = Infinity THEN "latestChangeVersion"
                  ELSE IF version.n = 0 THEN "fetchAll"
                  ELSE "getUpdatedRowsSince"]
             /\ UNCHANGED last
     /\ UNCHANGED <<rows, changes, kv, now, envTable>>

\* fetchAll: the SELECT of the page (d1.ts 20-23)
FetchAllSelect(p) ==
  LET me == procs[p]
      page == PageOf(me.parg).n
  IN /\ me.pc = "fetchAll"
     /\ procs' = [procs EXCEPT ![p].pc = "latestChangeVersion",
                               ![p].found =
                                  Slice(RowsOfAccount(rows[me.table], me.account),
                                        page * MAX_FETCH_ROWS,
                                        page * MAX_FETCH_ROWS + MAX_FETCH_ROWS)]
     /\ UNCHANGED <<rows, changes, kv, now, envTable, last>>

\* fetchAll: latestChangeVersion, then JSON.stringify(res) (d1.ts 11, 24-28;
\* index.ts 101)
FetchAllVersion(p) ==
  LET me == procs[p]
      res == [rows |-> me.found,
              version |-> latestChangeVersion(changes[me.table], me.account)]
  IN /\ me.pc = "latestChangeVersion"
     /\ procs' = [procs EXCEPT ![p].pc = "cachePut", ![p].putting = "response",
                               ![p].output = Json(res)]
     /\ UNCHANGED <<rows, changes, kv, now, envTable, last>>

\* getUpdatedRowsSince from line 141 on, with changesData in hand: either
\* no id on the page and the response is ready, or fetchRows starts
StartFetchRows(me) ==
  LET page == PageOf(me.parg).n
      start == Max2(0, page * MAX_FETCH_ROWS)
      end == Min2(Len(me.changesData.allIds), start + MAX_FETCH_ROWS)
      ids == Slice(me.changesData.allIds, start, end)
  IN IF Len(ids) = 0
     THEN [me EXCEPT !.pc = "cachePut", !.putting = "response",
                     !.output = Json([rows |-> <<>>,
                                      version |-> me.changesData.latestVersion])]
     ELSE [me EXCEPT !.pc = "fetchRows", !.todo = Dedupe(ids), !.found = <<>>]

\* getUpdatedRowsSince: cache.get of the changesData (d1.ts 98-100)
PullEnvGet(p) ==
  LET me == procs[p]
      cachedResult == CacheGet(kv, ToString(ParseInt(me.varg).n), me.account)
  IN /\ me.pc = "getUpdatedRowsSince"
     /\ procs' = [procs EXCEPT ![p] =
          IF Truthy(cachedResult)
          THEN StartFetchRows([me EXCEPT !.changesData = cachedResult.v,
                                         !.envHit = TRUE])
          ELSE [me EXCEPT !.pc = "selectChanges"]]
     /\ UNCHANGED <<rows, changes, kv, now, envTable, last>>

\* getUpdatedRowsSince: the SELECT on the change log and the changesData
\* built from it (d1.ts 102-130)
PullSelectChanges(p) ==
  LET me == procs[p]
  IN /\ me.pc = "selectChanges"
     /\ \E changesData \in {ComputeChangesData(changes[me.table], me.account,
                                                ParseInt(me.varg).n)} :
          procs' = [procs EXCEPT ![p].pc = "cachePut", ![p].putting = "changesData",
                                 ![p].changesData = changesData]
     /\ UNCHANGED <<rows, changes, kv, now, envTable, last>>

\* the key and the data of the cache.put in progress (index.ts 103-109,
\* d1.ts 132-138)
PutKeyOf(me) ==
  (IF me.putting = "changesData" THEN ToString(ParseInt(me.varg).n)
   ELSE hash(UrlOf(me.table, me.varg, me.parg))) \o "[IN]" \o me.account
PutDataOf(me) ==
  IF me.putting = "changesData" THEN Json(me.changesData) ELSE me.output

\* cache.put: the put of the data (cache.ts 30-31)
CachePutKey(p) ==
  LET me == procs[p]
  IN /\ me.pc = "cachePut"
     /\ kv' = KVPut(kv, PutKeyOf(me), PutDataOf(me))
     /\ procs' = [procs EXCEPT ![p].pc = "cachePutRegistryGet"]
     /\ UNCHANGED <<rows, changes, now, envTable, last>>

\* cache.put: the get of the registry (cache.ts 33-34)
CachePutRegistryGet(p) ==
  LET me == procs[p]
      cur == KVGet(kv, registryKey(me.table, me.account))
  IN /\ me.pc = "cachePutRegistryGet"
     /\ procs' = [procs EXCEPT ![p].pc = "cachePutRegistryPut",
                               ![p].registry =
                                  (IF Truthy(cur) THEN cur.v ELSE <<>>)
                                    \o <<PutKeyOf(me)>>]
     /\ UNCHANGED <<rows, changes, kv, now, envTable, last>>

\* cache.put: the put of the registry (cache.ts 35), after which
\* getUpdatedRowsSince goes on and handleGet answers (index.ts 110)
CachePutRegistryPut(p) ==
  LET me == procs[p]
  IN /\ me.pc = "cachePutRegistryPut"
     /\ kv' = KVPut(kv, registryKey(me.table, me.account), Json(me.registry))
     /\ IF me.putting = "changesData"
        THEN /\ procs' = [procs EXCEPT ![p] = StartFetchRows(me)]
             /\ UNCHANGED last
        ELSE Respond(p, me, TRUE, me.output, FALSE)
     /\ UNCHANGED <<rows, changes, now, envTable>>

\* fetchRows: the SELECT of one batch; after the last one the rows are
\* tagged and stringified (d1.ts 35-41, 145-153; index.ts 101)
FetchRowsBatch(p) ==
  LET me == procs[p]
      batch == Slice(me.todo, 0, MAX_VARIABLES)
      rest == Slice(me.todo, MAX_VARIABLES, Len(me.todo))
      allResults == me.found \o SelectBatch(rows[me.table], me.account, batch)
      res == [rows |-> [i \in 1..Len(allResults) |->
                          [id |-> allResults[i].id, data |-> allResults[i].data,
                           ts |-> ToString(ObjGet(me.changesData.idMap,
                                                  allResults[i].id))]],
              version |-> me.changesData.latestVersion]
  IN /\ me.pc = "fetchRows"
     /\ procs' = [procs EXCEPT ![p] =
          IF rest = <<>>
          THEN [me EXCEPT !.pc = "cachePut", !.putting = "response",
                          !.todo = <<>>, !.found = <<>>, !.output = Json(res)]
          ELSE [me EXCEPT !.todo = rest, !.found = allResults]]
     /\ UNCHANGED <<rows, changes, kv, now, envTable, last>>

\* the requests in flight in the other slots have met a write
Overlapped(p, me) ==
  [q \in Slots |-> IF q = p THEN me
                   ELSE IF procs[q].pc = "idle" THEN procs[q]
                   ELSE [procs[q] EXCEPT !.overlap = TRUE]]

\* writes in flight that have not recorded their change yet
Recording(t) == Cardinality({q \in Slots : InFlightWrite(q) /\ procs[q].table = t})

\* a PUT /t with body data arrives (index.ts 134-142)
PutStart(p, a, t, data) ==
  LET entries == SelectSeq(data, LAMBDA e : e.k # "")
      me == [Idle EXCEPT !.pc = IF entries = <<>> THEN "nullify" ELSE "upsertRow",
                         !.method = "PUT", !.account = a, !.table = t,
                         !.data = entries, !.ids = ObjectKeys(data)]
  IN /\ procs[p].pc = "idle"
     /\ Len(changes[t]) + Recording(t) < MaxLog
     /\ IF Len(ObjectKeys(data)) = 0
        THEN Respond(p, me, FALSE, Text("JSON body is empty"), FALSE)
        ELSE procs' = Overlapped(p, me) /\ UNCHANGED last
     /\ UNCHANGED <<rows, changes, kv, now, envTable>>

\* upsertRow: the INSERT OR REPLACE of one entry (d1.ts 68-72)
UpsertEntry(p) ==
  LET me == procs[p]
  IN /\ me.pc = "upsertRow"
     /\ rows' = [rows EXCEPT ![me.table] =
                   InsertOrReplace(rows[me.table], Head(me.data).k, me.account,
                                   Head(me.data).v)]
     /\ procs' = [procs EXCEPT ![p].data = Tail(me.data),
                               ![p].pc = IF Tail(me.data) = <<>> THEN "nullify"
                                         ELSE "upsertRow"]
     /\ UNCHANGED <<changes, kv, now, envTable, last>>

\* a DELETE /t/id1/id2... arrives (index.ts 114-116, d1.ts 55)
DeleteStart(p, a, t, ids) ==
  LET me == [Idle EXCEPT !.pc = "deleteRows", !.method = "DELETE", !.account = a,
                         !.table = t, !.ids = ids, !.todo = Dedupe(ids)]
  IN /\ procs[p].pc = "idle"
     /\ Len(changes[t]) + Recording(t) < MaxLog
     /\ IF Len(ids) = 0
        THEN Respond(p, me, FALSE, Text("No IDs provided"), FALSE)
        ELSE procs' = Overlapped(p, me) /\ UNCHANGED last
     /\ UNCHANGED <<rows, changes, kv, now, envTable>>

\* deleteRows: the DELETE of one batch (d1.ts 56-64)
DeleteRowsBatch(p) ==
  LET me == procs[p]
      rest == Slice(me.todo, MAX_VARIABLES, Len(me.todo))
  IN /\ me.pc = "deleteRows"
     /\ rows' = [rows EXCEPT ![me.table] =
                   DeleteBatch(rows[me.table], me.account,
                               Slice(me.todo, 0, MAX_VARIABLES))]
     /\ procs' = [procs EXCEPT ![p].todo = rest,
                               ![p].pc = IF rest = <<>> THEN "nullify"
                                         ELSE "deleteRows"]
     /\ UNCHANGED <<changes, kv, now, envTable, last>>

\* cache.nullify: the get of the registry (cache.ts 47-50)
NullifyRegistryGet(p) ==
  LET me == procs[p]
      registry == KVGet(kv, registryKey(me.table, me.account))
  IN /\ me.pc = "nullify"
     /\ procs' = [procs EXCEPT ![p] =
          IF ~Truthy(registry) THEN [me EXCEPT !.pc = "Date.now"]
          ELSE [me EXCEPT !.todo = registry.v,
                          !.pc = IF registry.v = <<>> THEN "nullifyRegistryPut"
                                 ELSE "nullifyBlank"]]
     /\ UNCHANGED <<rows, changes, kv, now, envTable, last>>

\* a nullify that blanks, with one key of its registry, every entry of the
\* namespace that is not a registry
NullifyBlank_Sweep(p) ==
  LET me == procs[p]
  IN /\ me.pc = "nullifyBlank"
     /\ kv' = [k \in DOMAIN kv \cup {Head(me.todo)} |->
                IF k \in {registryKey(t, a) : t \in Tables, a \in Accounts}
                THEN kv[k] ELSE Blank]
     /\ procs' = [procs EXCEPT ![p].todo = Tail(me.todo),
                               ![p].pc = IF Tail(me.todo) = <<>>
                                         THEN "nullifyRegistryPut"
                                         ELSE "nullifyBlank"]
     /\ UNCHANGED <<rows, changes, now, envTable, last>>

\* cache.nullify: the put of '' under one key (cache.ts 51-53)
NullifyBlank(p) ==
  LET me == procs[p]
  IN /\ me.pc = "nullifyBlank"
     /\ kv' = KVPut(kv, Head(me.todo), Blank)
     /\ procs' = [procs EXCEPT ![p].todo = Tail(me.todo),
                               ![p].pc = IF Tail(me.todo) = <<>>
                                         THEN "nullifyRegistryPut"
                                         ELSE "nullifyBlank"]
     /\ UNCHANGED <<rows, changes, now, envTable, last>>

\* cache.nullify: the put of '[]' under the registry key (cache.ts 54)
NullifyRegistryPut(p) ==
  LET me == procs[p]
  IN /\ me.pc = "nullifyRegistryPut"
     /\ kv' = KVPut(kv, registryKey(me.table, me.account), Json(<<>>))
     /\ procs' = [procs EXCEPT ![p].pc = "Date.now"]
     /\ UNCHANGED <<rows, changes, now, envTable, last>>

\* const changeVersion = Date.now() (index.ts 122, 147)
Stamp(p) ==
  /\ procs[p].pc = "Date.now"
  /\ procs' = [procs EXCEPT ![p].pc = "recordChange", ![p].changeVersion = now]
  /\ UNCHANGED <<rows, changes, kv, now, envTable, last>>

\* recordChange and the answer (index.ts 123-124, 148-149)
RecordChange(p) ==
  LET me == procs[p]
  IN /\ me.pc = "recordChange"
     /\ changes' = [changes EXCEPT ![me.table] =
                      recordChange(changes[me.table], me.account, me.changeVersion,
                                   me.ids)]
     /\ Respond(p, me, TRUE, Text(ToString(me.changeVersion)), FALSE)
     /\ UNCHANGED <<rows, kv, now, envTable>>

\* the requests that arrive: fetches in the slots RS and writes in the slots
\* WS, of the account a on the table t
Arrivals(RS, WS, a, t, IS, DS, VS, PS) ==
  \/ \E p \in RS, varg \in VS, parg \in PS : GetStart(p, a, t, varg, parg)
  \/ \E p \in WS : \E data \in PutBodies(a, IS, 1, DS) : PutStart(p, a, t, data)
  \/ \E p \in WS, ids \in DeleteArgs(IS, 1) : DeleteStart(p, a, t, ids)

\* the awaits of cache.put
CachePutSteps ==
  \/ \E p \in Slots : CachePutKey(p)
  \/ \E p \in Slots : CachePutRegistryGet(p)
  \/ \E p \in Slots : CachePutRegistryPut(p)

\* the awaits of handlePut and handleDelete
WriteSteps ==
  \/ \E p \in Slots : UpsertEntry(p)
  \/ \E p \in Slots : DeleteRowsBatch(p)
  \/ \E p \in Slots : NullifyRegistryGet(p)
  \/ \E p \in Slots : NullifyBlank(p)
  \/ \E p \in Slots : NullifyRegistryPut(p)
  \/ \E p \in Slots : Stamp(p)
  \/ \E p \in Slots : RecordChange(p)

\* full scans GET /staff/0/0 and writes, running at once and interleaved at
\* their awaits
NextScans ==
  \/ Tick
  \/ Arrivals({1}, {2}, "acc1", "staff", {"1"}, {"x"}, {"0"}, {"0"})
  \/ \E p \in Slots : GetCached(p)
  \/ \E p \in Slots : FetchAllSelect(p)
  \/ \E p \in Slots : FetchAllVersion(p)
  \/ CachePutSteps
  \/ WriteSteps
SpecScans == Init /\ [][NextScans]_vars

\* pulls GET /staff/1/0 and writes, running at once and interleaved at their
\* awaits
NextPulls ==
  \/ Tick
  \/ Arrivals({1}, {2}, "acc1", "staff", {"1"}, {"x"}, {"1"}, {"0"})
  \/ \E p \in Slots : GetCached(p)
  \/ \E p \in Slots : PullEnvGet(p)
  \/ \E p \in Slots : PullSelectChanges(p)
  \/ \E p \in Slots : FetchRowsBatch(p)
  \/ CachePutSteps
  \/ WriteSteps
SpecPulls == Init /\ [][NextPulls]_vars

\* a pull GET /staff/1/0 and a pull GET /patients/1/0, interleaved at their
\* awaits, and writes to staff that run between two awaits of the pulls
NextRegistries ==
  \/ Tick
  \/ GetStart(1, "acc1", "staff", "1", "0")
  \/ GetStart(2, "acc1", "patients", "1", "0")
  \/ \E p \in Slots : GetCached(p)
  \/ \E p \in Slots : PullEnvGet(p)
  \/ \E p \in Slots : PullSelectChanges(p)
  \/ \E p \in Slots : FetchRowsBatch(p)
  \/ CachePutSteps
  \/ \E data \in PutBodies("acc1", {"1"}, 1, {"x"}) : Put("acc1", "staff", data)
SpecRegistries == Init /\ [][NextRegistries]_vars

\* two PUTs on the same table of the same tenant running at once, interleaved
\* at their awaits, and full scans GET /staff/0/0 between and during them
NextWriters ==
  \/ Tick
  \/ GetStart(2, "acc1", "staff", "0", "0")
  \/ \E data \in PutBodies("acc1", {"1"}, 1, {"x"}) : PutStart(1, "acc1", "staff", data)
  \/ \E data \in PutBodies("acc1", {"a"}, 1, {"x"}) : PutStart(2, "acc1", "staff", data)
  \/ \E p \in Slots : GetCached(p)
  \/ \E p \in Slots : FetchAllSelect(p)
  \/ \E p \in Slots : FetchAllVersion(p)
  \/ CachePutSteps
  \/ \E p \in Slots : UpsertEntry(p)
  \/ \E p \in Slots : NullifyRegistryGet(p)
  \/ \E p \in Slots : NullifyBlank(p)
  \/ \E p \in Slots : NullifyRegistryPut(p)
  \/ \E p \in Slots : Stamp(p)
  \/ \E p \in Slots : RecordChange(p)
SpecWriters == Init /\ [][NextWriters]_vars

\* two scans of different pages of the same table of the same tenant running
\* at once, interleaved at their awaits, and PUTs that run while no scan does
NextCachePuts ==
  \/ Tick
  \/ ~InFlightWrite(2) /\ GetStart(1, "acc1", "staff", "0", "0")
  \/ GetStart(2, "acc1", "staff", "0", "1")
  \/ /\ procs[1].pc = "idle"
     /\ \E data \in PutBodies("acc1", {"1"}, 1, {"x"}) : PutStart(2, "acc1", "staff", data)
  \/ \E p \in Slots : GetCached(p)
  \/ \E p \in Slots : FetchAllSelect(p)
  \/ \E p \in Slots : FetchAllVersion(p)
  \/ CachePutSteps
  \/ \E p \in Slots : UpsertEntry(p)
  \/ \E p \in Slots : NullifyRegistryGet(p)
  \/ \E p \in Slots : NullifyBlank(p)
  \/ \E p \in Slots : NullifyRegistryPut(p)
  \/ \E p \in Slots : Stamp(p)
  \/ \E p \in Slots : RecordChange(p)
SpecCachePuts == Init /\ [][NextCachePuts]_vars

\* the awaits on the KV namespace and on the database: where a request
\* stands when the call it awaits may reject
KVAwaits == {"cacheGet", "getUpdatedRowsSince", "cachePut", "cachePutRegistryGet",
             "cachePutRegistryPut", "nullify", "nullifyBlank", "nullifyRegistryPut"}
D1Awaits == {"fetchAll", "latestChangeVersion", "selectChanges", "fetchRows",
             "upsertRow", "deleteRows", "recordChange"}

\* JSON.parse((await cacheKV.get(registryKey)) || '[]')
RegistryOf(store, t, a) ==
  LET cur == KVGet(store, registryKey(t, a)) IN IF Truthy(cur) THEN cur.v ELSE <<>>

\* an exception thrown in handleGet, handlePut or handleDelete that escapes
\* handle
Caught_Rethrown(error) == [escapes |-> TRUE, success |-> FALSE, output |-> Null]

\* the catch of RequestHandler.handle (index.ts 54-56)
Caught(error) ==
  [escapes |-> FALSE, success |-> FALSE,
   output |-> Text("Error during DB operation: " \o error)]

\* the call that the request of slot p awaits rejects: it has no effect, and
\* the exception goes up to the catch of handle. A nullify that fails leaves
\* its registry unreset, so calls fail only while the registry is short.
Throw(p) ==
  LET me == procs[p]
      c == Caught(IF me.pc \in KVAwaits THEN "KV" ELSE "D1")
  IN /\ me.pc \in KVAwaits \cup D1Awaits
     /\ Len(RegistryOf(kv, me.table, me.account)) <= MaxRegistry
     /\ IF c.escapes
        THEN procs' = [procs EXCEPT ![p].pc = "thrown"] /\ UNCHANGED last
        ELSE Respond(p, me, c.success, c.output, FALSE)
     /\ UNCHANGED <<rows, changes, kv, now, envTable>>

\* pulls GET /staff/1/0 and PUTs, one request at a time, each await of
\* which may reject
NextFailures ==
  \/ Tick
  \/ GetStart(1, "acc1", "staff", "1", "0")
  \/ \E data \in PutBodies("acc1", {"1"}, 1, {"x"}) : PutStart(1, "acc1", "staff", data)
  \/ \E p \in Slots : GetCached(p)
  \/ \E p \in Slots : PullEnvGet(p)
  \/ \E p \in Slots : PullSelectChanges(p)
  \/ \E p \in Slots : FetchRowsBatch(p)
  \/ CachePutSteps
  \/ \E p \in Slots : UpsertEntry(p)
  \/ \E p \in Slots : NullifyRegistryGet(p)
  \/ \E p \in Slots : NullifyBlank(p)
  \/ \E p \in Slots : NullifyRegistryPut(p)
  \/ \E p \in Slots : Stamp(p)
  \/ \E p \in Slots : RecordChange(p)
  \/ \E p \in Slots : Throw(p)
SpecFailures == Init /\ [][NextFailures]_vars

\* full scans GET /staff/0/0, pulls GET /staff/1/0 and PUTs, one request at a
\* time, each await of which may reject
NextWriteFailures ==
  \/ Tick
  \/ \E varg \in {"0", "1"} : GetStart(1, "acc1", "staff", varg, "0")
  \/ \E data \in PutBodies("acc1", {"1"}, 1, {"x"}) : PutStart(1, "acc1", "staff", data)
  \/ \E p \in Slots : GetCached(p)
  \/ \E p \in Slots : FetchAllSelect(p)
  \/ \E p \in Slots : FetchAllVersion(p)
  \/ \E p \in Slots : PullEnvGet(p)
  \/ \E p \in Slots : PullSelectChanges(p)
  \/ \E p \in Slots : FetchRowsBatch(p)
  \/ CachePutSteps
  \/ \E p \in Slots : UpsertEntry(p)
  \/ \E p \in Slots : NullifyRegistryGet(p)
  \/ \E p \in Slots : NullifyBlank(p)
  \/ \E p \in Slots : NullifyRegistryPut(p)
  \/ \E p \in Slots : Stamp(p)
  \/ \E p \in Slots : RecordChange(p)
  \/ \E p \in Slots : Throw(p)
SpecWriteFailures == Init /\ [][NextWriteFailures]_vars

\* full scans GET /staff/0/0 and PUTs of one or two rows, one request at a
\* time, each await of which may reject
NextUpsertFailures ==
  \/ Tick
  \/ GetStart(1, "acc1", "staff", "0", "0")
  \/ \E data \in PutBodies("acc1", {"1", "a"}, 2, {"x"}) : PutStart(1, "acc1", "staff", data)
  \/ \E p \in Slots : GetCached(p)
  \/ \E p \in Slots : FetchAllSelect(p)
  \/ \E p \in Slots : FetchAllVersion(p)
  \/ CachePutSteps
  \/ \E p \in Slots : UpsertEntry(p)
  \/ \E p \in Slots : NullifyRegistryGet(p)
  \/ \E p \in Slots : NullifyBlank(p)
  \/ \E p \in Slots : NullifyRegistryPut(p)
  \/ \E p \in Slots : Stamp(p)
  \/ \E p \in Slots : RecordChange(p)
  \/ \E p \in Slots : Throw(p)
SpecUpsertFailures == Init /\ [][NextUpsertFailures]_vars

\* the continuation of the request of slot p after the call it awaits has
\* settled, resolved or rejected
Continue(p) ==
  \/ GetCached(p) \/ PullEnvGet(p) \/ PullSelectChanges(p) \/ FetchRowsBatch(p)
  \/ CachePutKey(p) \/ CachePutRegistryGet(p) \/ CachePutRegistryPut(p)
  \/ UpsertEntry(p)
  \/ NullifyRegistryGet(p) \/ NullifyBlank(p) \/ NullifyRegistryPut(p)
  \/ Stamp(p) \/ RecordChange(p)
  \/ Throw(p)

\* every call a request awaits settles, and the runtime then runs the
\* continuation of the request
SpecFailuresFair == SpecFailures /\ \A p \in Slots : WF_vars(Continue(p))

\* ----------------------------------------------------------------- claims
\* what a fetch computes from the row store and the change log alone
FreshGet(a, t, varg, parg) ==
  IF ParseInt(varg).n = 0 \/ PageOf(parg) = Infinity
  THEN fetchAll(rows[t], changes[t], a, PageOf(parg))
  ELSE RowsOfChangesData(rows[t], a,
         ComputeChangesData(changes[t], a, ParseInt(varg).n), PageOf(parg).n)

\* the rows account a holds in table t, as a set of (id, data)
RowSet(tableRows, a) ==
  {[id |-> tableRows[i].id, data |-> tableRows[i].data] :
     i \in {j \in 1..Len(tableRows) : tableRows[j].account = a}}

LastIsWrite == last.method \in {"PUT", "DELETE"} /\ last.success
LastIsFetch == last.method = "GET" /\ last.success

\* the slot p answers a successful GET in this step
Answers(p) ==
  /\ procs[p].pc # "idle" /\ procs'[p].pc = "idle"
  /\ procs[p].method = "GET" /\ last'.success

\* C1: a fetch that starts when every write has responded, and during which
\* no write starts, answers what the row store and the change log give,
\* whatever fetches ran at once with the writes before it.
C1_NoStaleAfterWrite ==
  [][\A p \in Slots :
       (Answers(p) /\ ~procs[p].overlap)
       => last'.output = Json(FreshGet(procs[p].account, procs[p].table,
                                       procs[p].varg, procs[p].parg))]_vars

\* no write in flight: every write that touched the rows has recorded its
\* stamp
NoWriteInFlight == \A q \in Slots : ~InFlightWrite(q)

\* the cached responses to the full scans of page 0 whose version is at
\* least every recorded stamp hold the current rows
CachedScansCurrent ==
  \A a \in Accounts, t \in Tables :
    LET cached == CacheGet(kv, hash(UrlOf(t, "0", "0")), a)
    IN (Truthy(cached) /\ cached.v.version >= latestChangeVersion(changes[t], a))
       => cached.v.rows = fetchAll(rows[t], changes[t], a, Num(0)).rows

\* C3: with no write in flight, a full scan answered with a version at least
\* every recorded stamp holds the current rows, and so does every such
\* response stored in the cache.
C3_NoTornVersion ==
  [][/\ \A p \in Slots :
          (/\ Answers(p) /\ NoWriteInFlight
           /\ procs[p].varg = "0" /\ procs[p].parg = "0"
           /\ last'.output.v.version
                >= latestChangeVersion(changes[procs[p].table], procs[p].account))
          => last'.output.v.rows
               = fetchAll(rows[procs[p].table], changes[procs[p].table],
                          procs[p].account, Num(0)).rows
     /\ NoWriteInFlight' => CachedScansCurrent']_vars

\* C2: with one request at a time, the fetch that follows a successful
\* upsert or delete on the same (tenant, table) is not served from the cache
\* and equals what the row store and the change log give.
C2_WriteNullifiesCache ==
  [][(/\ LastIsWrite
      /\ last'.method = "GET" /\ last'.success
      /\ last'.account = last.account /\ last'.table = last.table)
     => (/\ ~last'.hit
         /\ last'.output =
              Json(FreshGet(last'.account, last'.table, last'.varg, last'.parg)))]_vars

\* C4: every row in a fetch response of a tenant carries a payload that this
\* tenant wrote (payloads are tagged with the account that wrote them).
C4_TenantIsolation ==
  LastIsFetch =>
    \A i \in 1..Len(last.output.v.rows) : last.output.v.rows[i].data[1] = last.account

\* C4 witness: a pull and a full scan of one tenant return a row while the
\* other tenant holds a row in the same table
C4_Witness ==
  /\ LastIsFetch /\ last.varg = "1" /\ ~last.hit
  /\ Len(last.output.v.rows) > 0
  /\ \E b \in Accounts \ {last.account} : RowSet(rows[last.table], b) # {}

\* C5: a write of one tenant leaves the rows of every other tenant as they
\* were.
C5_WriteFrame ==
  [][changes' # changes =>
       \A b \in Accounts \ {last'.account} : \A t \in Tables :
          RowSet(rows'[t], b) = RowSet(rows[t], b)]_vars

\* C6: a full fetch of page 0 returns exactly the rows the tenant holds,
\* each id once.
C6_FetchAllCurrent ==
  (LastIsFetch /\ last.varg = "0" /\ last.parg = "0") =>
    /\ SeqToSet(last.output.v.rows) = RowSet(rows[last.table], last.account)
    /\ Len(last.output.v.rows) = Cardinality(RowSet(rows[last.table], last.account))

\* C7: the version of a fetch response is at least the baseline of the
\* request.
C7_VersionMonotone ==
  LastIsFetch => last.output.v.version >= ParseInt(last.varg).n

\* C10: a pull uses changesData computed from the change log of its own
\* table, and after a write of a tenant no changesData of that tenant is
\* left in the cache for the pulls of the written table.
C10_EnvelopePerTable ==
  /\ (LastIsFetch /\ last.envFrom # "") => last.envFrom = last.table
  /\ LastIsWrite =>
       \A varg \in VersionArgs :
          ~Truthy(CacheGet(kv, ToString(ParseInt(varg).n), last.account))

\* what a pull computes from the row store and the change log alone
FreshPull(a, t, version, page) ==
  RowsOfChangesData(rows[t], a, ComputeChangesData(changes[t], a, version), page)

\* the versions above baseline of the change-log entries of a that list id
VersionsOf(tableChanges, a, id, baseline) ==
  {tableChanges[i].version :
     i \in {j \in 1..Len(tableChanges) :
              /\ tableChanges[j].account = a
              /\ tableChanges[j].version > baseline
              /\ id \in SeqToSet(SplitIds(tableChanges[j].ids))}}

\* the pages that can hold a row
Pages == 0..(MaxLog + 1)

\* where the id occurs in the pages of the pull of a on t since baseline
Occurrences(a, t, id, baseline) ==
  {pi \in UNION {{<<p, i>> :
                    i \in 1..Len(getUpdatedRowsSince(kv, rows[t], changes[t], t, a,
                                                     baseline, p).res.rows)} :
                 p \in Pages} :
     getUpdatedRowsSince(kv, rows[t], changes[t], t, a, baseline, pi[1]).res.rows[pi[2]].id
       = id}

\* C8: an id that the change log lists at two versions above the baseline
\* and that is in the row store comes exactly once over all the pages of
\* the pull since that baseline, tagged with the greatest of its versions.
C8_Dedup ==
  \A a \in Accounts, t \in Tables, id \in Ids \cup {"b"}, baseline \in 0..MaxClock :
    LET vs == VersionsOf(changes[t], a, id, baseline)
        occ == Occurrences(a, t, id, baseline)
    IN (Cardinality(vs) >= 2 /\ \E r \in RowSet(rows[t], a) : r.id = id)
       => /\ Cardinality(occ) = 1
          /\ \A pi \in occ :
               getUpdatedRowsSince(kv, rows[t], changes[t], t, a,
                                   baseline, pi[1]).res.rows[pi[2]].ts
                 = ToString(CHOOSE v \in vs : \A w \in vs : w <= v)

\* C9: two pulls in a row with the same arguments give the same result, the
\* second from the cached changesData; the cached changesData stays until
\* nullify runs for the table of the pull; the pull after that nullify
\* computes the changesData from the change log.
C9_EnvelopeReuse ==
  [][/\ (/\ last.method = "getUpdatedRowsSince"
         /\ last'.method = "getUpdatedRowsSince"
         /\ last'.table = last.table /\ last'.varg = last.varg /\ last'.parg = last.parg)
        => (last'.output = last.output /\ last'.envHit)
     /\ (/\ last.method = "getUpdatedRowsSince"
         /\ ~(last'.method = "nullify" /\ last'.table = last.table))
        => Truthy(CacheGet(kv', last.varg, last.account))
     /\ (/\ last.method = "nullify"
         /\ last'.method = "getUpdatedRowsSince" /\ last'.table = last.table)
        => (/\ ~last'.envHit
            /\ last'.output =
                 Json(FreshPull(last'.account, last'.table, ParseInt(last'.varg).n,
                                ParseInt(last'.parg).n)))]_vars

\* the DELETE requests of a tenant on a table whose path has no id
EmptyDeletes ==
  [method : {"DELETE"}, authorization : {Bearer(TRUE, a) : a \in Accounts},
   table : Tables, segments : {<<>>, <<"">>}, body : {NoBody}]

\* C11: a DELETE with no id is answered 'No IDs provided' and leaves the
\* rows, the change logs, the cache entries and the registries as they were.
C11_EmptyDeleteRejected ==
  [][\A request \in EmptyDeletes :
       Request(request)
       => /\ ~last'.success /\ last'.output = Text("No IDs provided")
          /\ UNCHANGED <<rows, changes, kv>>]_vars

\* C11 witness: a DELETE with no id was rejected while the tenant held a
\* row, a change-log entry and a cached response
C11_Witness ==
  /\ last.method = "DELETE" /\ last.output = Text("No IDs provided")
  /\ rows[last.table] # <<>> /\ changes[last.table] # <<>>
  /\ Truthy(CacheGet(kv, hash(UrlOf(last.table, "1", "0")), last.account))

\* the outputs of the requests that validation rejects
ValidationErrors ==
  {Text(e) : e \in {"Invalid method", "Authorization header is missing",
                    "Authorization failed", "Invalid table name", "Invalid version",
                    "Invalid page", "Request body is empty or invalid",
                    "JSON body is empty", "No IDs provided"}}

\* C12: a request that validation rejects leaves the rows, the change logs,
\* the cache entries and the registries as they were.
C12_RejectedChangesNothing ==
  [][(~last'.success /\ last'.output \in ValidationErrors)
     => UNCHANGED <<rows, changes, kv>>]_vars

\* C12 witness: a PUT with a body was refused for its token while the tenant
\* of the token held a row, a change-log entry and a cached response
C12_Witness ==
  /\ last.method = "PUT" /\ last.output = Text("Authorization failed")
  /\ rows["staff"] # <<>> /\ changes["staff"] # <<>>
  /\ Truthy(CacheGet(kv, hash(UrlOf("staff", "1", "0")), "acc1"))

\* the PUT bodies of the model: at most two properties, keys "", 1 and a
Bodies(a) == PutBodies(a, {"", "1", "a"}, 2, Payloads)

\* the keys of the body that upsertRow writes
WrittenIds(data) == SelectSeq(ObjectKeys(data), LAMBDA id : id # "")

\* C13: a successful PUT appends one change-log entry of the tenant, with
\* the version of the response and, as ids, the non-empty keys of the body
\* in the order of the body.
C13_UpsertRecordsWritten ==
  [][\A a \in Accounts, t \in Tables :
       \A data \in Bodies(a) :
         (Put(a, t, data) /\ last'.success)
         => /\ Len(changes'[t]) = Len(changes[t]) + 1
            /\ SubSeq(changes'[t], 1, Len(changes[t])) = changes[t]
            /\ LET entry == changes'[t][Len(changes'[t])]
               IN /\ entry.account = a
                  /\ last'.output = Text(ToString(entry.version))
                  /\ SplitIds(entry.ids) = WrittenIds(data)]_vars

\* C14: a PUT whose body has empty keys only succeeds and leaves the rows
\* and the change logs as they were.
C14_EmptyKeysNoTrace ==
  [][\A a \in Accounts, t \in Tables :
       \A data \in {d \in Bodies(a) : WrittenIds(d) = <<>>} :
         Put(a, t, data) => (last'.success /\ rows' = rows /\ changes' = changes)]_vars

\* the rows left when account a deletes ids
Remaining(tableRows, a, ids) ==
  SelectSeq(tableRows, LAMBDA row : ~(row.account = a /\ row.id \in SeqToSet(ids)))

\* C15: a successful DELETE removes the rows of the tenant with those ids and
\* appends one change-log entry with the version of the response and the
\* requested ids; the fetch-all that follows answers the rows left with that
\* version, and the pull since that version, whether it follows the delete
\* or the fetch-all, answers no rows with that version.
C15_DeleteThenFetch ==
  [][\A a \in Accounts, t \in Tables :
       \A ids \in DeleteArgs(Ids, 2) :
         (Delete(a, t, ids) /\ last'.success)
         => LET v == now
                scan == handleGet(kv', rows'[t], changes'[t], t, a, "0", "0")
                pull == handleGet(scan.kv, rows'[t], changes'[t], t, a, ToString(v), "0")
                pullFirst == handleGet(kv', rows'[t], changes'[t], t, a, ToString(v), "0")
                none == Json([rows |-> <<>>, version |-> v])
            IN /\ last'.output = Text(ToString(v))
               /\ rows'[t] = Remaining(rows[t], a, ids)
               /\ changes'[t] = Append(changes[t], [version |-> v, account |-> a,
                                                    ids |-> JoinIds(ids)])
               /\ SplitIds(JoinIds(ids)) = ids
               /\ scan.success
               /\ scan.output = Json([rows |-> RowsOfAccount(Remaining(rows[t], a, ids), a),
                                      version |-> v])
               /\ pull.success /\ pull.output = none
               /\ pullFirst.success /\ pullFirst.output = none]_vars

\* a delete has removed one of the two rows the tenant had put
C15_Witness ==
  /\ last.method = "DELETE" /\ last.success
  /\ Len(changes[last.table]) = 2
  /\ SplitIds(changes[last.table][1].ids) = <<"1", "a">>
  /\ SplitIds(changes[last.table][2].ids) = <<"1">>
  /\ RowsOfAccount(rows[last.table], last.account) = <<[id |-> "a", data |-> <<"acc1", "x">>]>>

\* the number of rows the pages of GET /t/varg/... of account a share: the
\* rows of the tenant for a full scan, the ids changed since the baseline
\* for a pull
Total(a, t, varg) ==
  IF ParseInt(varg).n = 0 THEN Len(RowsOfAccount(rows[t], a))
  ELSE Len(ComputeChangesData(changes[t], a, ParseInt(varg).n).allIds)

\* the last request was a GET with a valid version and a page that starts
\* at or after the end
LastPastEnd ==
  /\ last.method = "GET"
  /\ ParseInt(last.varg) # NaN /\ ParseInt(last.varg).n >= 0
  /\ PageOf(last.parg) # Infinity /\ PageOf(last.parg).n >= 0
  /\ PageOf(last.parg).n * MAX_FETCH_ROWS >= Total(last.account, last.table, last.varg)

\* C16: a GET of a page past the end of a full scan or of a pull succeeds
\* with no rows and the version of the table.
C16_PastEndEmpty ==
  LastPastEnd
  => /\ last.success
     /\ last.output.t = "json"
     /\ last.output.v.rows = <<>>
     /\ last.output.v.version = FreshGet(last.account, last.table, last.varg, last.parg).version

\* the rows of a page as a set
PageSet(a, t, page) == SeqToSet(fetchAll(rows[t], changes[t], a, Num(page)).rows)

\* C17: with no write since a page of the full scan of (tenant, table) was
\* read, that page holds MAX_FETCH_ROWS rows while rows are left, then the
\* remainder, then none; it shares no row with another page, and the pages
\* together are the rows of the tenant.
C17_ScanPartition ==
  last.method = "fetchAll"
  => LET a == last.account
         t == last.table
         page == PageOf(last.parg).n
         got == last.output.v.rows
         N == Cardinality(RowSet(rows[t], a))
         left == IF N > page * MAX_FETCH_ROWS THEN N - page * MAX_FETCH_ROWS ELSE 0
     IN /\ Len(got) <= MAX_FETCH_ROWS
        /\ Len(got) = Min2(MAX_FETCH_ROWS, left)
        /\ Cardinality(SeqToSet(got)) = Len(got)
        /\ \A other \in ScanPages \ {page} : SeqToSet(got) \cap PageSet(a, t, other) = {}
        /\ SeqToSet(got) \cup UNION {PageSet(a, t, other) : other \in ScanPages \ {page}}
             = RowSet(rows[t], a)

\* page 1 of a tenant with three rows holds the third, in a table where
\* the other tenant has a row as well
C17_Witness ==
  /\ last.method = "fetchAll" /\ last.parg = "1"
  /\ Cardinality(RowSet(rows[last.table], last.account)) = 3
  /\ Len(last.output.v.rows) = 1
  /\ \E b \in Accounts \ {last.account} : RowSet(rows[last.table], b) # {}

\* the version segments handleGet accepts
AcceptedVersions == {varg \in VersionArgs \cup {"3", "4"} :
                       ParseInt(varg) # NaN /\ ParseInt(varg).n >= 0}

\* row tables to read in place of the table
OtherRows(t) ==
  {<<>>, <<[id |-> "b", account |-> "acc1", data |-> <<"acc1", "y">>]>>}
    \cup {rows[u] : u \in Tables \ {t}}

\* C18: a GET of page Infinity answers no rows and the latest version of
\* the change log of (tenant, table), for every baseline accepted, and
\* answers and stores the same whatever the row table holds.
C18_SentinelNoRows ==
  [][\A a \in Accounts, t \in Tables, varg \in AcceptedVersions :
       Get(a, t, varg, "Infinity")
       => /\ last'.success
          /\ last'.output = Json([rows |-> <<>>,
                                  version |-> latestChangeVersion(changes[t], a)])
          /\ \A other \in OtherRows(t) :
               LET r == handleGet(kv, other, changes[t], t, a, varg, "Infinity")
               IN r.output = last'.output /\ r.kv = kv']_vars

\* the sentinel was computed, not read from the cache, for a baseline above
\* the latest version of a tenant that has rows
C18_Witness ==
  /\ last.method = "GET" /\ last.parg = "Infinity" /\ last.varg = "2"
  /\ last.success /\ ~last.hit
  /\ RowsOfAccount(rows[last.table], last.account) # <<>>
  /\ last.output.v.version = 1

\* C19: the nullify of (tenant, table) that a write runs blanks every entry
\* the registry lists and keeps its key, leaves the registry empty, and
\* leaves as they were the registries of the other tenants and tables and
\* the entries they list.
C19_NullifyFrame ==
  [][\A a \in Accounts, t \in Tables :
       \A data \in PutBodies(a, {"1"}, 1, {"x"}) :
         Put(a, t, data)
         => /\ \A key \in SeqToSet(RegistryOf(kv, t, a)) :
                 key \in DOMAIN kv' /\ kv'[key] = Blank
            /\ DOMAIN kv \subseteq DOMAIN kv'
            /\ RegistryOf(kv', t, a) = <<>>
            /\ Truthy(KVGet(kv, registryKey(t, a)))
                 => KVGet(kv', registryKey(t, a)) = Json(<<>>)
            /\ \A b \in Accounts, u \in Tables :
                 <<b, u>> # <<a, t>>
                 => /\ KVGet(kv', registryKey(u, b)) = KVGet(kv, registryKey(u, b))
                    /\ \A key \in SeqToSet(RegistryOf(kv, u, b)) :
                         KVGet(kv', key) = KVGet(kv, key)]_vars

\* the KV keys of account a: its responses, its changesData and its
\* registries
OwnKeys(a) ==
  {hash(UrlOf(t, varg, parg)) \o "[IN]" \o a :
     t \in Tables, varg \in VersionArgs, parg \in PageArgs}
    \cup {ToString(v) \o "[IN]" \o a : v \in 0..(MaxClock + 1)}
    \cup {registryKey(t, a) : t \in Tables}

\* C20: what a GET of a tenant answers and stores is what it answers and
\* stores when the cache holds nothing of the other tenants, and when the
\* tenant has no payload of its own for the URL the answer is computed from
\* its own rows and change log.
C20_CachePerTenant ==
  [][(last'.method = "GET" /\ (last' # last \/ kv' # kv))
       => LET a == last'.account
              t == last'.table
              own == OwnKeys(a)
              alone == handleGet([k \in DOMAIN kv \cap own |-> kv[k]], rows[t], changes[t],
                                 t, a, last'.varg, last'.parg)
          IN /\ last'.output = alone.output
             /\ last'.hit = alone.hit
             /\ [k \in DOMAIN kv' \cap own |-> kv'[k]] = alone.kv
             /\ \A k \in DOMAIN kv \ own : k \in DOMAIN kv' /\ kv'[k] = kv[k]
             /\ DOMAIN kv' \subseteq DOMAIN kv \cup own
             /\ ~Truthy(CacheGet(kv, hash(UrlOf(t, last'.varg, last'.parg)), a))
                  => /\ ~last'.hit
                     /\ last'.success
                          => \A i \in 1..Len(last'.output.v.rows) :
                               [id |-> last'.output.v.rows[i].id,
                                data |-> last'.output.v.rows[i].data]
                                 \in RowSet(rows[t], a)]_vars

\* a tenant with a row of its own gets a computed answer to a URL for which
\* the cache holds another payload of the other tenant
C20_Witness ==
  /\ LastIsFetch /\ ~last.hit
  /\ Len(last.output.v.rows) > 0
  /\ \E b \in Accounts \ {last.account} :
       LET theirs == CacheGet(kv, hash(UrlOf(last.table, last.varg, last.parg)), b)
       IN Truthy(theirs) /\ theirs # last.output

\* the registry keys of the store
RegistryKeys == {registryKey(t, a) : t \in Tables, a \in Accounts}

\* C21: a GET that follows a successful GET of the same URL and tenant,
\* whatever was done to the row table past the worker in between, is served
\* the same payload from the cache, stores nothing and answers the same
\* whatever the row table holds; and no step but a write of the worker
\* changes a cached payload, so GETs of other URLs in between change nothing
\* to this.
C21_RepeatServedFromCache ==
  [][/\ (/\ last.method = "GET" /\ last.success
         /\ last'.method = "GET" /\ (last' # last \/ kv' # kv)
         /\ last'.account = last.account /\ last'.table = last.table
         /\ last'.varg = last.varg /\ last'.parg = last.parg)
        => /\ last'.hit /\ last'.success
           /\ last'.output = last.output
           /\ kv' = kv
           /\ \A other \in OtherRows(last.table) :
                handleGet(kv, other, changes[last.table], last.table, last.account,
                          last.varg, last.parg).output = last.output
     /\ changes' = changes
        => \A k \in DOMAIN kv \ RegistryKeys :
             Truthy(kv[k]) => (k \in DOMAIN kv' /\ kv'[k] = kv[k])]_vars

\* the repeated GET was served a payload that the row table, changed past
\* the worker, no longer gives
C21_Witness ==
  /\ LastIsFetch /\ last.hit
  /\ last.output # Json(FreshGet(last.account, last.table, last.varg, last.parg))

BadPages == {parg \in {"0", "1", "2", "-1", "x", "Infinity"} :
               NumberOf(parg) = NaN \/ (NumberOf(parg) # Infinity /\ NumberOf(parg).n < 0)}

\* C23: a GET whose page segment is negative or not a number is answered
\* 'Invalid page' without success, and it leaves the rows, the change logs
\* and the cache as they were.
C23_BadPageRejected ==
  [][(last'.method = "GET" /\ last'.parg \in BadPages /\ (last' # last \/ kv' # kv))
     => /\ ~last'.success /\ last'.output = Text("Invalid page")
        /\ UNCHANGED <<rows, changes, kv>>]_vars

\* the outputs of the validation of handleGet, handlePut and handleDelete
OperationErrors ==
  {Text(e) : e \in {"Invalid version", "Invalid page", "Request body is empty or invalid",
                    "JSON body is empty", "No IDs provided"}}

\* the first check that the request fails, in the order method, OPTIONS and
\* HEAD, header, token, table, operation
FirstFailure(request) ==
  IF request.method \notin {"GET", "PUT", "DELETE", "OPTIONS", "HEAD"} THEN "Invalid method"
  ELSE IF request.method \in {"OPTIONS", "HEAD"} THEN "OK"
  ELSE IF ~request.authorization.present THEN "Authorization header is missing"
  ELSE IF ~request.authorization.valid \/ request.authorization.prefix = ""
  THEN "Authorization failed"
  ELSE IF request.table \notin VALID_TABLES THEN "Invalid table name"
  ELSE IF ~WellFormed(request) THEN "operation"
  ELSE "none"

\* C24: the response reports the first check that the request fails, in the
\* order unsupported method, OPTIONS/HEAD answered 'OK' without
\* authentication, missing header, failed token, invalid table, validation
\* of the operation; a request that fails a check changes nothing, and only
\* a request that fails none is executed.
C24_FirstFailureReported ==
  [][\A request \in AnyRequests :
       (request.method = last'.method /\ request.table = last'.table /\ Request(request))
       => LET first == FirstFailure(request)
          IN /\ first = "none" => last'.success /\ last'.output \notin ValidationErrors
             /\ first = "operation" => ~last'.success /\ last'.output \in OperationErrors
             /\ first \notin {"none", "operation"} =>
                  /\ last'.output = Text(first)
                  /\ last'.success = (first = "OK")
                  /\ last'.account = ""
             /\ first # "none" => UNCHANGED <<rows, changes, kv>>]_vars

\* a DELETE with a refused token on an invalid table was answered for its
\* token while the table staff held a row
C24_Witness ==
  /\ last.method = "DELETE" /\ last.table = "invalid_table"
  /\ last.output = Text("Authorization failed")
  /\ rows["staff"] # <<>> /\ changes["staff"] # <<>>

\* the ids that an uncached pull since version finds in the change log
PulledIds(tableChanges, account, version) ==
  SeqToSet(ComputeChangesData(tableChanges, account, version).allIds)

\* C25: when a write on (tenant, table) responds after a fetch of the same
\* (tenant, table) returned version V, the uncached pull since V made right
\* after the response finds every id that the write wrote and that is still
\* in the row store.
C25_PullSeesWrite ==
  [][\A p \in Slots :
       (/\ last.method = "GET" /\ last.success
        /\ procs[p].pc = "recordChange" /\ procs'[p].pc = "idle" /\ changes' # changes
        /\ procs[p].account = last.account /\ procs[p].table = last.table)
       => \A id \in SeqToSet(procs[p].ids) :
            (\E i \in 1..Len(rows'[last.table]) :
               /\ rows'[last.table][i].id = id
               /\ rows'[last.table][i].account = last.account)
            => id \in PulledIds(changes'[last.table], last.account,
                                last.output.v.version)]_vars

\* C26: the change-log entries of a (tenant, table), in the order they were
\* appended, have non-decreasing versions.
C26_LogOrdered ==
  \A t \in Tables, a \in Accounts :
    \A i, j \in 1..Len(changes[t]) :
      (i < j /\ changes[t][i].account = a /\ changes[t][j].account = a)
      => changes[t][i].version <= changes[t][j].version

\* the keys of the responses cached for the table t of the account a
ResponseKeys(t, a) ==
  {hash(UrlOf(t, varg, parg)) \o "[IN]" \o a : varg \in VersionArgs, parg \in PageArgs}

\* C27: a response cached for a (table, tenant) that a reader can get, its
\* entry being non-blank, has its key in the registry of that (table,
\* tenant).
C27_VisibleEntriesListed ==
  \A t \in Tables, a \in Accounts :
    \A key \in ResponseKeys(t, a) :
      Truthy(KVGet(kv, key)) => key \in SeqToSet(RegistryOf(kv, t, a))

\* where a request stands inside cache.put
InCachePut == {"cachePut", "cachePutRegistryGet", "cachePutRegistryPut"}

\* C28: the steps of a cache.put change neither the row store nor the change
\* log, and in the cache only the entry of its key and the registry of its
\* (table, tenant); a nullify blanks only keys that it read from the
\* registry, so that an entry whose key a concurrent put dropped from the
\* registry stays as it is; and a GET that finds the entry answers it.
C28_DroppedKeyStaysStale ==
  [][\A p \in Slots :
       LET me == procs[p]
           entry == CacheGet(kv, hash(UrlOf(me.table, me.varg, me.parg)), me.account)
       IN /\ (me.pc \in InCachePut /\ procs'[p] # me)
             => /\ rows' = rows /\ changes' = changes
                /\ \A k \in DOMAIN kv \ {PutKeyOf(me), registryKey(me.table, me.account)} :
                     k \in DOMAIN kv' /\ kv'[k] = kv[k]
          /\ (me.pc = "nullifyBlank" /\ procs'[p] # me)
             => /\ KVGet(kv', Head(me.todo)) = Blank
                /\ \A k \in DOMAIN kv \ SeqToSet(me.todo) : k \in DOMAIN kv' /\ kv'[k] = kv[k]
          /\ (me.pc = "cacheGet" /\ procs'[p] # me /\ Truthy(entry))
             => last'.hit /\ last'.success /\ last'.output = entry]_vars

\* two scans put their responses at once and the registry lost the key of
\* page 1; the PUT that followed blanked page 0 alone, and page 1 is still
\* cached with the version of before the PUT
C28_Witness ==
  LET k0 == hash(UrlOf("staff", "0", "0")) \o "[IN]acc1"
      k1 == hash(UrlOf("staff", "0", "1")) \o "[IN]acc1"
  IN /\ \A p \in Slots : procs[p].pc = "idle"
     /\ last.method = "PUT" /\ last.success
     /\ KVGet(kv, k0) = Blank
     /\ Truthy(KVGet(kv, k1))
     /\ k1 \notin SeqToSet(RegistryOf(kv, "staff", "acc1"))
     /\ KVGet(kv, k1) # Json(FreshGet("acc1", "staff", "0", "1"))

\* C29: once a nullify and the cache puts that ran beside it are over, no
\* request being in flight, every non-blank response cached for the (table,
\* tenant) has its key in the registry.
C29_NullifyKeepsUnblanked ==
  (\A p \in Slots : procs[p].pc = "idle")
  => \A t \in Tables, a \in Accounts :
       \A key \in ResponseKeys(t, a) :
         (key \in DOMAIN kv /\ Truthy(kv[key])) => key \in SeqToSet(RegistryOf(kv, t, a))

\* where a PUT stands after upsertRow and before recordChange has resolved
AfterUpsert == {"nullify", "nullifyBlank", "nullifyRegistryPut", "recordChange"}

\* the ids of the rows in the payload of a response
IdsOf(output) == {output.v.rows[i].id : i \in 1..Len(output.v.rows)}

\* C30: a PUT that fails after upsertRow and before its change-log entry is
\* appended is answered without success; its rows stay in the row store and
\* the change log is as before; no pull GET /table/baseline/0 with a
\* baseline above 0 answers any of them, and the full fetch GET /table/0/0
\* answers all of them.
C30_FailedWriteOrphans ==
  [][\A p \in Slots :
       LET me == procs[p]
           written == SeqToSet(me.ids) \ {""}
       IN (/\ me.method = "PUT" /\ me.pc \in AfterUpsert
           /\ procs'[p].pc = "idle" /\ changes' = changes)
          => /\ ~last'.success
             /\ rows' = rows
             /\ \A id \in written : \E row \in RowSet(rows'[me.table], me.account) : row.id = id
             /\ \A baseline \in 1..MaxClock :
                  LET pull == handleGet(kv', rows'[me.table], changes'[me.table], me.table,
                                        me.account, ToString(baseline), "0")
                  IN pull.success => IdsOf(pull.output) \cap written = {}
             /\ LET full == handleGet(kv', rows'[me.table], changes'[me.table], me.table,
                                      me.account, "0", "0")
                IN full.success /\ written \subseteq IdsOf(full.output)]_vars

\* C31: when upsertRow fails on a row after it wrote an earlier row of the
\* body, the fetch-all GET /table/0/0 that follows answers the rows the
\* tenant holds then.
C31_PartialUpsertSeen ==
  [][\A p \in Slots :
       LET me == procs[p]
       IN (/\ me.method = "PUT" /\ me.pc = "upsertRow"
           /\ Len(me.data) < Len(SelectSeq(me.ids, LAMBDA id : id # ""))
           /\ procs'[p].pc = "idle")
          => LET next == handleGet(kv', rows'[me.table], changes'[me.table], me.table,
                                   me.account, "0", "0")
             IN /\ next.success
                /\ next.output = Json(fetchAll(rows'[me.table], changes'[me.table],
                                                me.account, Num(0)))]_vars

\* C32: deleteRows called with an empty list of ids leaves the rows and the
\* change log of the table as they were.
C32_EmptyDeleteNoOp ==
  [][\A a \in Accounts : D1Delete(a, "staff", <<>>) => UNCHANGED <<rows, changes>>]_vars

RECURSIVE EncounterOrder(_)
\* the ids of the entries, each at its first occurrence, entry after entry
EncounterOrder(entries) ==
  IF entries = <<>> THEN <<>>
  ELSE Dedupe(Head(entries).ids \o EncounterOrder(Tail(entries)))

\* the envelope cached for the baseline 1 of acc1, Null when there is none
EnvelopeOfPull == CacheGet(kv, "1", "acc1")

\* C33: the allIds of an envelope are the keys of its idMap, each once, in the
\* order in which the ids first occur in the filtered entries taken by
\* ascending version.
C33_AllIdsOrder ==
  Truthy(EnvelopeOfPull)
    => LET changesData == EnvelopeOfPull.v
       IN /\ SeqToSet(changesData.allIds) = SeqToSet(ObjectKeys(changesData.idMap))
          /\ Dedupe(changesData.allIds) = changesData.allIds
          /\ changesData.allIds = EncounterOrder(changesData.changeRows)

\* the entries fetched for the baseline 1, their ids split
FetchedEntries ==
  LET queryResult == ChangesSince(changes["staff"], "acc1", 1)
  IN [i \in 1..Len(queryResult) |->
        [version |-> queryResult[i].version, ids |-> SplitIds(queryResult[i].ids)]]

\* C33 as amended: the allIds of an envelope are the keys of its idMap, each
\* once: first the ids that are array indices, by ascending number, then the
\* other ids in the order in which they first occur in the fetched entries
\* taken by ascending version.
C33_AllIdsKeyOrder ==
  Truthy(EnvelopeOfPull)
    => LET changesData == EnvelopeOfPull.v
           met == EncounterOrder(FetchedEntries)
       IN /\ SeqToSet(changesData.allIds) = SeqToSet(ObjectKeys(changesData.idMap))
          /\ Dedupe(changesData.allIds) = changesData.allIds
          /\ changesData.allIds =
               SortIds(SelectSeq(met, IsIndex))
                 \o SelectSeq(met, LAMBDA id : ~IsIndex(id))

\* an envelope whose allIds start with the two array indices, first met after
\* the id a and in descending order
C33_Witness ==
  /\ Truthy(EnvelopeOfPull)
  /\ EnvelopeOfPull.v.allIds = <<"1", "2", "a">>
  /\ EncounterOrder(FetchedEntries) = <<"a", "2", "1">>

\* the number of occurrences of id in the id lists of the entries
ListedTimes(entries, id) ==
  Cardinality(UNION {{<<i, j>> : j \in {n \in 1..Len(entries[i].ids) : entries[i].ids[n] = id}} :
                       i \in 1..Len(entries)})

\* C34: in the changeRows of an envelope every id of idMap occurs once and
\* in one entry only, the entry of version idMap[id], and no entry has an
\* empty list of ids.
C34_ChangeRowsPartition ==
  \A key \in DOMAIN envTable :
    Truthy(KVGet(kv, key))
      => LET changesData == KVGet(kv, key).v
             changeRows == changesData.changeRows
         IN /\ \A id \in SeqToSet(ObjectKeys(changesData.idMap)) :
                 /\ ListedTimes(changeRows, id) = 1
                 /\ \E i \in 1..Len(changeRows) :
                      /\ id \in SeqToSet(changeRows[i].ids)
                      /\ changeRows[i].version = ObjGet(changesData.idMap, id)
            /\ \A i \in 1..Len(changeRows) : Len(changeRows[i].ids) > 0

\* getUpdatedRowsSince(1, page) of acc1 on staff with the cache store
PullOfPage(store, page) ==
  getUpdatedRowsSince(store, rows["staff"], changes["staff"], "staff", "acc1", 1, page)

\* the ids of the rows of a pull
PageSlice(pull) == [i \in 1..Len(pull.res.rows) |-> pull.res.rows[i].id]

\* C35: the pages 0, 1, 2 of a pull since one baseline, asked one after the
\* other with no write between them, slice one allIds: a page resolves at
\* most MAX_FETCH_ROWS ids, no id is in two pages, the pages put end to end
\* are allIds, and every page reports the same version. (Every id of the log
\* has a row here, so that a page shows its whole slice.)
C35_PagesSliceAllIds ==
  LET first == PullOfPage(kv, 0)
      second == PullOfPage(first.kv, 1)
      third == PullOfPage(second.kv, 2)
      pulls == <<first, second, third>>
      slices == <<PageSlice(first), PageSlice(second), PageSlice(third)>>
      changesData == CacheGet(first.kv, "1", "acc1").v
  IN /\ \A n \in 1..3 :
          /\ Len(slices[n]) <= MAX_FETCH_ROWS
          /\ pulls[n].res.version = changesData.latestVersion
          /\ CacheGet(pulls[n].kv, "1", "acc1").v = changesData
     /\ \A n, m \in 1..3 : n # m => SeqToSet(slices[n]) \cap SeqToSet(slices[m]) = {}
     /\ slices[1] \o slices[2] \o slices[3] = changesData.allIds

\* page 1 was pulled from the cached envelope and holds the third id, after
\* the two ids of page 0
C35_Witness ==
  /\ last.method = "getUpdatedRowsSince" /\ last.parg = "1" /\ last.envHit
  /\ Len(last.output.v.rows) = 1
  /\ Len(PageSlice(PullOfPage(kv, 0))) = MAX_FETCH_ROWS
  /\ last.output.v.version = MaxClock

\* the step answers a pull: a successful GET with a baseline above 0 and a
\* page that is a number
AnswersPull ==
  /\ last'.method = "GET" /\ last'.success
  /\ ParseInt(last'.varg).n # 0 /\ PageOf(last'.parg) # Infinity

\* the step is a DELETE that recorded its change
RecordsDelete ==
  /\ last'.method = "DELETE" /\ last'.success
  /\ Len(changes'[last'.table]) = Len(changes[last'.table]) + 1

\* C36: the rows of a pull are the ids of the page's slice of allIds that
\* have a row of the tenant; after a DELETE of an id at version v, the pull
\* since a baseline below v answers no row of that id and a version of v or
\* more.
C36_DeletedLeavesNoTrace ==
  [][/\ AnswersPull
        => LET t == last'.table
               a == last'.account
               envelope == KVGet(kv', ToString(ParseInt(last'.varg).n) \o "[IN]" \o a)
               start == PageOf(last'.parg).n * MAX_FETCH_ROWS
               fetchedRows == last'.output.v.rows
           IN Truthy(envelope)
                => /\ IdsOf(last'.output)
                        = {id \in SeqToSet(Slice(envelope.v.allIds, start, start + MAX_FETCH_ROWS)) :
                             \E row \in RowSet(rows'[t], a) : row.id = id}
                   /\ Cardinality(IdsOf(last'.output)) = Len(fetchedRows)
                   /\ \A i \in 1..Len(fetchedRows) :
                        [id |-> fetchedRows[i].id, data |-> fetchedRows[i].data]
                          \in RowSet(rows'[t], a)
     /\ RecordsDelete
        => LET t == last'.table
               a == last'.account
               entry == changes'[t][Len(changes'[t])]
           IN \A baseline \in 1..(entry.version - 1), parg \in {"0", "1"} :
                LET pull == handleGet(kv', rows'[t], changes'[t], t, a,
                                      ToString(baseline), parg)
                IN /\ pull.success
                   /\ IdsOf(pull.output) \cap SeqToSet(SplitIds(entry.ids)) = {}
                   /\ pull.output.v.version >= entry.version]_vars

\* the last call answered an incremental pull: getUpdatedRowsSince, or a GET
\* with a baseline above 0 and a page that is a number
LastIsPull ==
  \/ last.method = "getUpdatedRowsSince"
  \/ /\ LastIsFetch
     /\ ParseInt(last.varg).n # 0 /\ PageOf(last.parg) # Infinity

C38_IdsRoundTrip ==
  [][\A version \in 1..MaxClock, ids \in RecordedLists :
       D1Record("acc1", "staff", version, ids)
         => SplitIds(changes'["staff"][Len(changes'["staff"])].ids) = ids]_vars

\* C39: fetchRows(ids) returns the rows of the tenant whose id is in ids,
\* each once, for any number of ids and of repetitions: ids without a row
\* are left out and the empty list gives the empty result.
C39_FetchRowsExact ==
  last.method = "fetchRows"
    => LET ids == last.output.v.ids
           fetchedRows == last.output.v.rows
       IN /\ {[id |-> fetchedRows[i].id, data |-> fetchedRows[i].data] :
                 i \in 1..Len(fetchedRows)}
               = {row \in RowSet(rows[last.table], last.account) : row.id \in SeqToSet(ids)}
          /\ Len(fetchedRows)
               = Cardinality({row \in RowSet(rows[last.table], last.account) :
                                row.id \in SeqToSet(ids)})
          /\ ids = <<>> => fetchedRows = <<>>

\* three ids in more than one batch: a twice, a row of the tenant, and 1,
\* a row of the other tenant
C39_Witness ==
  /\ last.method = "fetchRows" /\ last.account = "acc1"
  /\ last.output.v.ids = <<"a", "1", "a">>
  /\ Len(last.output.v.rows) = 1
  /\ \E i \in 1..Len(rows["staff"]) :
       rows["staff"][i].id = "1" /\ rows["staff"][i].account = "acc2"

\* the versions of the entries of the account in the change log of staff
RecordedVersions(a) ==
  {changes["staff"][i].version :
     i \in {j \in 1..Len(changes["staff"]) : changes["staff"][j].account = a}}

\* v is the greatest version of the account's entries, 0 when it has none
IsLatest(a, v) ==
  IF RecordedVersions(a) = {} THEN v = 0
  ELSE v \in RecordedVersions(a) /\ \A w \in RecordedVersions(a) : w <= v

\* C40: latestChangeVersion is the greatest version among the entries of the
\* tenant in the table's change log, 0 when it has none, and a full fetch
\* reports this value as its version.
C40_FullFetchVersion ==
  /\ \A a \in Accounts : IsLatest(a, latestChangeVersion(changes["staff"], a))
  /\ last.method = "fetchAll" => IsLatest(last.account, last.output.v.version)

\* a full fetch that answers a row and the version 2 of the tenant's entry
\* while the other tenant has a later entry
C40_Witness ==
  /\ last.method = "fetchAll" /\ last.account = "acc1"
  /\ Len(last.output.v.rows) = 1
  /\ last.output.v.version = 2
  /\ RecordedVersions("acc2") = {3}
====
